---------------------------- MODULE Spec2Model ----------------------------
(***************************************************************************)
(* A model of tinymvt's geometry codec (src/src/geometry.rs), tag codec    *)
(* (src/src/tag.rs) and Hilbert tile ids (src/src/tileid/hilbert.rs).      *)
(*                                                                         *)
(* Machine integers.  TLC's integers are 32 bits wide, so u32 words cannot *)
(* be held at their real width.  Every machine integer is modelled at a    *)
(* reduced width: i32/u32 have Bits bits, i64 has 2*Bits bits.  Every      *)
(* operation wraps, shifts and overflows at that width exactly where the   *)
(* source's does at 32 (64) bits: "v >> 31" is a shift by Bits-1, and so   *)
(* on.  The 3 command bits of a command word are kept, so a count field    *)
(* has Bits-3 bits.                                                        *)
(*                                                                         *)
(* Build profile.  Rust's +, - and += panic on overflow when the crate is  *)
(* built with overflow checks (the default of a debug build) and wrap when *)
(* it is built without (the default of a release build).  overflow_checks  *)
(* is chosen in Init and both outcomes are explored.                       *)
(***************************************************************************)
EXTENDS Integers, Sequences, FiniteSets

VARIABLES
    overflow_checks,  \* build profile: TRUE = arithmetic overflow panics
    \* GeometryEncoder
    buf,              \* GeometryEncoder.buf
    prev_x,           \* GeometryEncoder.prev_x
    prev_y,           \* GeometryEncoder.prev_y
    enc_status,       \* "idle" | "live" | "consumed" (into_vec) | "panicked"
    calls,            \* history: the calls made, <<[op, pts, at]>>, at = Len(buf) before
    \* GeometryDecoder
    dbuf,             \* GeometryDecoder.buf
    pos,              \* GeometryDecoder.pos
    cursor_x,         \* GeometryDecoder.cursor_x
    cursor_y,         \* GeometryDecoder.cursor_y
    dec_status,       \* "idle" | "fresh" | "used"
    dec_op,           \* which decode_* was called
    result,           \* what it returned: [tag, val, msg]
    \* TagsEncoder / TagsDecoder
    little_endian,    \* target byte order: what "native endian" means in this build
    keys,             \* TagsEncoder.keys (IndexSet, in insertion order)
    values,           \* TagsEncoder.values (IndexSet, in insertion order)
    tags,             \* TagsEncoder.tags
    tag_status,       \* "idle" | "live" | "consumed" (into_keys_and_values)
    added,            \* history: <<[key, value, ki, vi]>> added since the last take_tags
    taken,            \* history: <<[tags, pairs]>>, one per take_tags
    out_keys,         \* into_keys_and_values().0
    out_values,       \* into_keys_and_values().1
    decoded,          \* results of TagsDecoder::decode, one slot per take_tags
    \* zigzag / unzigzag applied to one value
    zz_pc,            \* "idle" | "start" | "encoded" | "decoded"
    zz_in,            \* the i32 handed to zigzag
    zz_word,          \* zigzag(zz_in)
    zz_out,           \* unzigzag(zz_word)
    \* zxy_to_hilbert / hilbert_to_zxy applied to one tile
    hil_pc,           \* "idle" | "start" | "encoded" | "decoded"
    hil_z,            \* the zoom handed to zxy_to_hilbert
    hil_x,            \* the x handed to zxy_to_hilbert
    hil_y,            \* the y handed to zxy_to_hilbert
    hil_id,           \* what zxy_to_hilbert returned: [tag, val]
    hil_zxy           \* what hilbert_to_zxy returned on it: [tag, val]

geom_vars == <<overflow_checks, buf, prev_x, prev_y, enc_status, calls,
               dbuf, pos, cursor_x, cursor_y, dec_status, dec_op, result>>
tag_vars  == <<little_endian, keys, values, tags, tag_status, added, taken,
               out_keys, out_values, decoded>>
zz_vars   == <<zz_pc, zz_in, zz_word, zz_out>>
hil_vars  == <<hil_pc, hil_z, hil_x, hil_y, hil_id, hil_zxy>>
vars      == <<geom_vars, tag_vars, zz_vars, hil_vars>>

---------------------------------------------------------------------------
(* Bounds of the model *)

\* width of i32 / u32 in the model (32 in the source)
Bits == 6
\* vertices handed to one encoder, over all its calls (LongLine apart)
MaxVerts == 3
\* add_points / add_linestring / add_ring calls on one encoder
MaxCalls == 2
\* add_ring calls on one encoder when whole rings are drawn from RingPool
MaxRings == 3
\* words of a raw buffer handed to a decoder
MaxWords == 3
\* paths of a raw buffer made of whole paths
MaxChunks == 3
\* add calls on one TagsEncoder
MaxAdds == 2
\* take_tags calls on one TagsEncoder
MaxTakes == 2
\* indices of an index list handed to a TagsDecoder
MaxIndices == 4

---------------------------------------------------------------------------
(* Machine integers *)

TwoW  == 2 ^ Bits
MinI  == -(2 ^ (Bits - 1))            \* i32::MIN
MaxI  == 2 ^ (Bits - 1) - 1           \* i32::MAX
I32   == MinI .. MaxI
U32   == 0 .. (TwoW - 1)
TwoL  == 2 ^ (2 * Bits)
MinL  == -(2 ^ (2 * Bits - 1))        \* i64::MIN
MaxL  == 2 ^ (2 * Bits - 1) - 1       \* i64::MAX

\* `as u32` of a two's complement value
AsU32(v) == v % TwoW
\* `as i32` of a word
AsI32(u) == IF (u % TwoW) >= 2 ^ (Bits - 1) THEN (u % TwoW) - TwoW ELSE u % TwoW
\* `as i64` after wrapping
AsI64(v) == IF (v % TwoL) >= 2 ^ (2 * Bits - 1) THEN (v % TwoL) - TwoL ELSE v % TwoL

Overflows32(v) == v < MinI \/ v > MaxI
Overflows64(v) == v < MinL \/ v > MaxL

RECURSIVE BitXor(_, _, _)
BitXor(a, b, n) ==
    IF n = 0 THEN 0
    ELSE (((a % 2) + (b % 2)) % 2) + 2 * BitXor(a \div 2, b \div 2, n - 1)

RECURSIVE BitAnd(_, _, _)
BitAnd(a, b, n) ==
    IF n = 0 THEN 0
    ELSE ((a % 2) * (b % 2)) + 2 * BitAnd(a \div 2, b \div 2, n - 1)

RECURSIVE BitOr(_, _, _)
BitOr(a, b, n) ==
    IF n = 0 THEN 0
    ELSE (IF (a % 2) + (b % 2) > 0 THEN 1 ELSE 0) + 2 * BitOr(a \div 2, b \div 2, n - 1)

\* u32 ^, &, |, << and >>
Xor32(a, b) == BitXor(a, b, Bits)
And32(a, b) == BitAnd(a, b, Bits)
Or32(a, b)  == BitOr(a, b, Bits)
Shl32(a, n) == (a * (2 ^ n)) % TwoW
Shr32(a, n) == a \div (2 ^ n)

---------------------------------------------------------------------------
(* Command words *)

GEOM_COMMAND_MOVE_TO    == 1
GEOM_COMMAND_LINE_TO    == 2
GEOM_COMMAND_CLOSE_PATH == 7
GEOM_COMMAND_MOVE_TO_WITH_COUNT1    == Or32(Shl32(1, 3), GEOM_COMMAND_MOVE_TO)
GEOM_COMMAND_CLOSE_PATH_WITH_COUNT1 == Or32(Shl32(1, 3), GEOM_COMMAND_CLOSE_PATH)

---------------------------------------------------------------------------
(* zig-zag *)

\* a shift that forgets the sign: (v as u32 >> 31) in place of (v >> 31)
zigzag_logical_shift(v) ==
    Xor32(AsU32(v * 2), Shr32(AsU32(v), Bits - 1))

\* ((v << 1) ^ (v >> 31)) as u32 : << wraps, >> is arithmetic (floor)
zigzag(v) ==
    Xor32(AsU32(v * 2), AsU32(v \div (2 ^ (Bits - 1))))

\* ((v >> 1) as i32) ^ (-((v & 1) as i32))
unzigzag(v) ==
    AsI32(Xor32(Shr32(v, 1), AsU32(-(And32(v, 1)))))

---------------------------------------------------------------------------
(* GeometryEncoder *)

\* i32 `a - b` / `a + b`: the value the build keeps when it does not panic
Wrap32(v) == AsI32(AsU32(v))
\* whether i32 arithmetic with mathematical result v panics in this build
Panics32(v) == overflow_checks /\ Overflows32(v)
Panics64(v) == overflow_checks /\ Overflows64(v)

EncoderNew == [buf |-> <<>>, prev_x |-> 0, prev_y |-> 0, st |-> "live"]

\* The loop of add_points / add_path over the rest of the iterator: each
\* vertex moves the cursor; a vertex with a non-zero delta is emitted and counted.
\* Returns [e: encoder, count].
RECURSIVE AddLoop(_, _, _)
AddLoop(e, rest, count) ==
    IF rest = <<>> \/ e.st = "panicked" THEN [e |-> e, count |-> count]
    ELSE LET x  == Head(rest)[1]
             y  == Head(rest)[2]
         IN  IF Panics32(x - e.prev_x) \/ Panics32(y - e.prev_y)
             THEN [e |-> [e EXCEPT !.st = "panicked"], count |-> count]
             ELSE LET dx == Wrap32(x - e.prev_x)
                      dy == Wrap32(y - e.prev_y)
                      moved == [e EXCEPT !.prev_x = x, !.prev_y = y]
                  IN  IF dx # 0 \/ dy # 0
                      THEN AddLoop([moved EXCEPT !.buf = @ \o <<zigzag(dx), zigzag(dy)>>],
                                   Tail(rest), count + 1)
                      ELSE AddLoop(moved, Tail(rest), count)

\* add_points whose header keeps the provisional count 1
add_points_no_backpatch(e, pts) ==
    IF pts = <<>> THEN e
    ELSE LET dx == Wrap32(pts[1][1] - e.prev_x)
             dy == Wrap32(pts[1][2] - e.prev_y)
             e1 == [e EXCEPT !.prev_x = pts[1][1], !.prev_y = pts[1][2],
                             !.buf = @ \o <<GEOM_COMMAND_MOVE_TO_WITH_COUNT1,
                                            zigzag(dx), zigzag(dy)>>]
         IN  AddLoop(e1, Tail(pts), 1).e

\* add_points whose count is the number of points given, the ones it left
\* out included
add_points_counts_repeats(e, pts) ==
    IF pts = <<>> THEN e
    ELSE IF Panics32(pts[1][1] - e.prev_x) \/ Panics32(pts[1][2] - e.prev_y)
    THEN [e EXCEPT !.st = "panicked"]
    ELSE LET r == AddLoop([e EXCEPT !.prev_x = pts[1][1], !.prev_y = pts[1][2],
                                    !.buf = @ \o <<GEOM_COMMAND_MOVE_TO_WITH_COUNT1,
                                                   zigzag(Wrap32(pts[1][1] - e.prev_x)),
                                                   zigzag(Wrap32(pts[1][2] - e.prev_y))>>],
                          Tail(pts), 1)
         IN  IF r.e.st = "panicked" THEN r.e
             ELSE [r.e EXCEPT !.buf[Len(e.buf) + 1] =
                                  Or32(GEOM_COMMAND_MOVE_TO, Shl32(Len(pts), 3))]

\* add_points that writes the count into the first word of the buffer
\* instead of the word at moveto_cmd_pos
add_points_patches_buffer_start(e, pts) ==
    IF pts = <<>> THEN e
    ELSE IF Panics32(pts[1][1] - e.prev_x) \/ Panics32(pts[1][2] - e.prev_y)
    THEN [e EXCEPT !.st = "panicked"]
    ELSE LET r == AddLoop([e EXCEPT !.prev_x = pts[1][1], !.prev_y = pts[1][2],
                                    !.buf = @ \o <<GEOM_COMMAND_MOVE_TO_WITH_COUNT1,
                                                   zigzag(Wrap32(pts[1][1] - e.prev_x)),
                                                   zigzag(Wrap32(pts[1][2] - e.prev_y))>>],
                          Tail(pts), 1)
         IN  IF r.e.st = "panicked" THEN r.e
             ELSE [r.e EXCEPT !.buf[1] = Or32(GEOM_COMMAND_MOVE_TO, Shl32(r.count, 3))]

\* add_points
add_points(e, pts) ==
    IF pts = <<>> THEN e
    ELSE IF Panics32(pts[1][1] - e.prev_x) \/ Panics32(pts[1][2] - e.prev_y)
    THEN [e EXCEPT !.st = "panicked"]
    ELSE LET dx == Wrap32(pts[1][1] - e.prev_x)
             dy == Wrap32(pts[1][2] - e.prev_y)
             moveto_cmd_pos == Len(e.buf)
             e1 == [e EXCEPT !.prev_x = pts[1][1], !.prev_y = pts[1][2],
                             !.buf = @ \o <<GEOM_COMMAND_MOVE_TO_WITH_COUNT1,
                                            zigzag(dx), zigzag(dy)>>]
             r  == AddLoop(e1, Tail(pts), 1)
         IN  IF r.e.st = "panicked" THEN r.e
             ELSE [r.e EXCEPT !.buf[moveto_cmd_pos + 1] =
                                  Or32(GEOM_COMMAND_MOVE_TO, Shl32(r.count, 3))]

\* add_path that leaves the LineTo of a degenerate line empty
add_path_empty_lineto(e, pts, close) ==
    IF pts = <<>> THEN e
    ELSE LET dx == Wrap32(pts[1][1] - e.prev_x)
             dy == Wrap32(pts[1][2] - e.prev_y)
             lineto_cmd_pos == Len(e.buf) + 3
             e1 == [e EXCEPT !.prev_x = pts[1][1], !.prev_y = pts[1][2],
                             !.buf = @ \o <<GEOM_COMMAND_MOVE_TO_WITH_COUNT1,
                                            zigzag(dx), zigzag(dy),
                                            GEOM_COMMAND_LINE_TO>>]
             r  == AddLoop(e1, Tail(pts), 0)
             e3 == [r.e EXCEPT !.buf[lineto_cmd_pos + 1] =
                                   Or32(GEOM_COMMAND_LINE_TO, Shl32(r.count, 3))]
         IN  IF close
             THEN [e3 EXCEPT !.buf = @ \o <<GEOM_COMMAND_CLOSE_PATH_WITH_COUNT1>>]
             ELSE e3

\* add_path (add_linestring: close = FALSE, add_ring: close = TRUE)
add_path(e, pts, close) ==
    IF pts = <<>> THEN e
    ELSE IF Panics32(pts[1][1] - e.prev_x) \/ Panics32(pts[1][2] - e.prev_y)
    THEN [e EXCEPT !.st = "panicked"]
    ELSE LET dx == Wrap32(pts[1][1] - e.prev_x)
             dy == Wrap32(pts[1][2] - e.prev_y)
             lineto_cmd_pos == Len(e.buf) + 3
             e1 == [e EXCEPT !.prev_x = pts[1][1], !.prev_y = pts[1][2],
                             !.buf = @ \o <<GEOM_COMMAND_MOVE_TO_WITH_COUNT1,
                                            zigzag(dx), zigzag(dy),
                                            GEOM_COMMAND_LINE_TO>>]
             r  == AddLoop(e1, Tail(pts), 0)
             e2 == IF r.count = 0
                   THEN [e |-> [r.e EXCEPT !.buf = @ \o <<0, 0>>], count |-> r.count + 1]
                   ELSE r
             e3 == [e2.e EXCEPT !.buf[lineto_cmd_pos + 1] =
                                    Or32(GEOM_COMMAND_LINE_TO, Shl32(e2.count, 3))]
         IN  IF r.e.st = "panicked" THEN r.e
             ELSE IF close
             THEN [e3 EXCEPT !.buf = @ \o <<GEOM_COMMAND_CLOSE_PATH_WITH_COUNT1>>]
             ELSE e3

\* add_linestring that writes a line of no length at the cursor for an empty
\* input
add_linestring_line_on_empty(e, pts) ==
    IF pts = <<>>
    THEN [e EXCEPT !.buf = @ \o <<GEOM_COMMAND_MOVE_TO_WITH_COUNT1, 0, 0,
                                  Or32(GEOM_COMMAND_LINE_TO, Shl32(1, 3)), 0, 0>>]
    ELSE add_path(e, pts, FALSE)

\* add_ring that closes with the bare command id 7, the count left out
add_ring_close_without_count(e, pts) ==
    LET r == add_path(e, pts, TRUE)
    IN  IF pts = <<>> \/ r.st # "live" THEN r
        ELSE [r EXCEPT !.buf[Len(r.buf)] = GEOM_COMMAND_CLOSE_PATH]

\* add_ring that takes its deltas from (0,0) whatever was added before
add_ring_from_origin(e, pts) ==
    add_path([e EXCEPT !.prev_x = 0, !.prev_y = 0], pts, TRUE)

\* add_linestring whose LineTo count is the number of vertices after the
\* first, the ones it left out included
add_linestring_counts_repeats(e, pts) ==
    LET r == add_path(e, pts, FALSE)
    IN  IF pts = <<>> \/ r.st # "live" \/ Len(pts) = 1 THEN r
        ELSE [r EXCEPT !.buf[Len(e.buf) + 4] =
                           Or32(GEOM_COMMAND_LINE_TO, Shl32(Len(pts) - 1, 3))]

add_linestring(e, pts) == add_path(e, pts, FALSE)
add_ring(e, pts)       == add_path(e, pts, TRUE)

---------------------------------------------------------------------------
(* GeometryDecoder *)

\* a decoder's own fields; pos counts words from 0 as in the source
DecoderNew == [pos |-> 0, cursor_x |-> 0, cursor_y |-> 0]

Ok(v, d)    == [tag |-> "Ok",    val |-> v,    msg |-> "",  d |-> d]
Err(m, d)   == [tag |-> "Err",   val |-> <<>>, msg |-> m,   d |-> d]
Panic(m, d) == [tag |-> "Panic", val |-> <<>>, msg |-> m,   d |-> d]

\* read_coord that returns the delta instead of the moved cursor
read_coord_relative(b, d) ==
    IF d.pos + 1 >= Len(b)
    THEN Err("Unexpected end of buffer while reading coordinates", d)
    ELSE LET dx == unzigzag(b[d.pos + 1])
             dy == unzigzag(b[d.pos + 2])
             d2 == [d EXCEPT !.pos = @ + 2,
                             !.cursor_x = Wrap32(@ + dx), !.cursor_y = Wrap32(@ + dy)]
         IN  Ok(<<dx, dy>>, d2)

\* read_coord
read_coord(b, d) ==
    IF d.pos + 1 >= Len(b)
    THEN Err("Unexpected end of buffer while reading coordinates", d)
    ELSE LET dx == unzigzag(b[d.pos + 1])
             dy == unzigzag(b[d.pos + 2])
             d1 == [d EXCEPT !.pos = @ + 2]
         IN  IF Panics32(d.cursor_x + dx)
             THEN Panic("attempt to add with overflow", d1)
             ELSE IF Panics32(d.cursor_y + dy)
             THEN Panic("attempt to add with overflow",
                        [d1 EXCEPT !.cursor_x = Wrap32(@ + dx)])
             ELSE LET d2 == [d1 EXCEPT !.cursor_x = Wrap32(@ + dx),
                                       !.cursor_y = Wrap32(@ + dy)]
                  IN  Ok(<<d2.cursor_x, d2.cursor_y>>, d2)

\* `for _ in 0..count { let coord = self.read_coord()?; v.push(coord); }`
RECURSIVE ReadCoords(_, _, _, _)
ReadCoords(b, d, count, v) ==
    IF count = 0 THEN Ok(v, d)
    ELSE LET r == read_coord(b, d)
         IN  IF r.tag # "Ok" THEN r
             ELSE ReadCoords(b, r.d, count - 1, Append(v, r.val))

\* the while loop of decode_points
RECURSIVE DecodePointsLoop(_, _, _)
DecodePointsLoop(b, d, points) ==
    IF ~(d.pos < Len(b)) THEN Ok(points, d)
    ELSE LET cmd_int == b[d.pos + 1]
             d1      == [d EXCEPT !.pos = @ + 1]
             cmd     == And32(cmd_int, 7)
             count   == Shr32(cmd_int, 3)
         IN  IF cmd = GEOM_COMMAND_MOVE_TO
             THEN LET r == ReadCoords(b, d1, count, points)
                  IN  IF r.tag # "Ok" THEN r ELSE DecodePointsLoop(b, r.d, r.val)
             ELSE Err("Unexpected command in point geometry", d1)

decode_points(b, d) == DecodePointsLoop(b, d, <<>>)

\* MoveTo(1), the start coordinate, LineTo(count) and its coordinates: the
\* part decode_linestrings and decode_polygons have in common.
\* Returns the path in val.
DecodePath(b, d, what) ==
    LET cmd_int == b[d.pos + 1]
        d1      == [d EXCEPT !.pos = @ + 1]
        cmd     == And32(cmd_int, 7)
        count   == Shr32(cmd_int, 3)
    IN  IF cmd # GEOM_COMMAND_MOVE_TO
        THEN Err("Expected MoveTo command", d1)
        ELSE IF count # 1
        THEN Err("MoveTo count must be 1 for " \o what, d1)
        ELSE LET c == read_coord(b, d1)
             IN  IF c.tag # "Ok" THEN c
                 ELSE IF c.d.pos >= Len(b)
                 THEN Err("Unexpected end of buffer after MoveTo", c.d)
                 ELSE LET cmd_int2 == b[c.d.pos + 1]
                          d2       == [c.d EXCEPT !.pos = @ + 1]
                          cmd2     == And32(cmd_int2, 7)
                          count2   == Shr32(cmd_int2, 3)
                      IN  IF cmd2 # GEOM_COMMAND_LINE_TO
                          THEN Err("Expected LineTo command", d2)
                          ELSE ReadCoords(b, d2, count2, <<c.val>>)

\* the while loop of decode_linestrings
RECURSIVE DecodeLinestringsLoop(_, _, _)
DecodeLinestringsLoop(b, d, linestrings) ==
    IF ~(d.pos < Len(b)) THEN Ok(linestrings, d)
    ELSE LET r == DecodePath(b, d, "linestrings")
         IN  IF r.tag # "Ok" THEN r
             ELSE DecodeLinestringsLoop(b, r.d, Append(linestrings, r.val))

decode_linestrings(b, d) == DecodeLinestringsLoop(b, d, <<>>)

\* calculate_signed_area.  The source returns `area as f64 / 2.0`, area an
\* i64; twice is that i64, whose sign is the sign of the f64.
RECURSIVE AreaLoop(_, _, _)
AreaLoop(ring, i, area) ==
    IF i = Len(ring) THEN [tag |-> "Ok", twice |-> area]
    ELSE LET j  == (i + 1) % Len(ring)
             a1 == area + ring[i + 1][1] * ring[j + 1][2]
             a2 == AsI64(a1) - ring[j + 1][1] * ring[i + 1][2]
         IN  IF Panics64(a1) \/ Panics64(a2)
             THEN [tag |-> "Panic", twice |-> 0]
             ELSE AreaLoop(ring, i + 1, AsI64(a2))

calculate_signed_area(ring) ==
    IF Len(ring) < 3 THEN [tag |-> "Ok", twice |-> 0]
    ELSE AreaLoop(ring, 0, 0)

\* `signed_area >= 0.0` in place of `signed_area > 0.0`
is_exterior_or_flat(signed_area) == signed_area.twice >= 0

\* let is_exterior = signed_area > 0.0
is_exterior(signed_area) == signed_area.twice > 0

\* the grouping step of decode_polygons
Group(polygons, current_polygon, ring, exterior) ==
    IF exterior /\ current_polygon # <<>>
    THEN [polygons |-> Append(polygons, current_polygon), current_polygon |-> <<ring>>]
    ELSE [polygons |-> polygons, current_polygon |-> Append(current_polygon, ring)]

\* the while loop of decode_polygons and the final push
RECURSIVE DecodePolygonsLoop(_, _, _, _)
DecodePolygonsLoop(b, d, polygons, current_polygon) ==
    IF ~(d.pos < Len(b))
    THEN Ok(IF current_polygon # <<>> THEN Append(polygons, current_polygon)
            ELSE polygons, d)
    ELSE LET r == DecodePath(b, d, "polygons")
         IN  IF r.tag # "Ok" THEN r
             ELSE IF r.d.pos >= Len(b)
             THEN Err("Unexpected end of buffer after LineTo", r.d)
             ELSE LET cmd_int == b[r.d.pos + 1]
                      d1      == [r.d EXCEPT !.pos = @ + 1]
                      cmd     == And32(cmd_int, 7)
                  IN  IF cmd # GEOM_COMMAND_CLOSE_PATH
                      THEN Err("Expected ClosePath command", d1)
                      ELSE LET signed_area == calculate_signed_area(r.val)
                           IN  IF signed_area.tag = "Panic"
                               THEN Panic("attempt to add with overflow", d1)
                               ELSE LET g == Group(polygons, current_polygon, r.val,
                                                   is_exterior(signed_area))
                                    IN  DecodePolygonsLoop(b, d1, g.polygons,
                                                           g.current_polygon)

decode_polygons(b, d) == DecodePolygonsLoop(b, d, <<>>, <<>>)

---------------------------------------------------------------------------
(* Idle values of the components *)

GeomIdle ==
    /\ overflow_checks = FALSE
    /\ buf = <<>> /\ prev_x = 0 /\ prev_y = 0 /\ enc_status = "idle" /\ calls = <<>>
    /\ dbuf = <<>> /\ pos = 0 /\ cursor_x = 0 /\ cursor_y = 0
    /\ dec_status = "idle" /\ dec_op = "none"
    /\ result = [tag |-> "none", val |-> <<>>, msg |-> ""]

TagsIdle ==
    /\ little_endian = TRUE
    /\ keys = <<>> /\ values = <<>> /\ tags = <<>> /\ tag_status = "idle"
    /\ added = <<>> /\ taken = <<>>
    /\ out_keys = <<>> /\ out_values = <<>> /\ decoded = <<>>

ZigIdle ==
    /\ zz_pc = "idle" /\ zz_in = 0 /\ zz_word = 0 /\ zz_out = 0

HilIdle ==
    /\ hil_pc = "idle" /\ hil_z = 0 /\ hil_x = 0 /\ hil_y = 0
    /\ hil_id = [tag |-> "none", val |-> 0]
    /\ hil_zxy = [tag |-> "none", val |-> <<0, 0, 0>>]

---------------------------------------------------------------------------
(* Geometry: actions *)

Encoder == [buf |-> buf, prev_x |-> prev_x, prev_y |-> prev_y, st |-> enc_status]
Decoder == [pos |-> pos, cursor_x |-> cursor_x, cursor_y |-> cursor_y]

decoder_vars == <<dbuf, pos, cursor_x, cursor_y, dec_status, dec_op, result>>

\* GeometryEncoder::new(), in either build profile
EncoderInit ==
    /\ overflow_checks \in BOOLEAN
    /\ buf = <<>> /\ prev_x = 0 /\ prev_y = 0 /\ enc_status = "live" /\ calls = <<>>
    /\ dbuf = <<>> /\ pos = 0 /\ cursor_x = 0 /\ cursor_y = 0
    /\ dec_status = "idle" /\ dec_op = "none"
    /\ result = [tag |-> "none", val |-> <<>>, msg |-> ""]

SetEncoder(e, op, pts) ==
    /\ buf' = e.buf /\ prev_x' = e.prev_x /\ prev_y' = e.prev_y
    /\ enc_status' = e.st
    /\ calls' = Append(calls, [op |-> op, pts |-> pts, at |-> Len(buf)])
    /\ UNCHANGED <<overflow_checks, decoder_vars, tag_vars, zz_vars, hil_vars>>

AddPoints(pts) ==
    /\ enc_status = "live"
    /\ SetEncoder(add_points(Encoder, pts), "add_points", pts)

AddLinestring(pts) ==
    /\ enc_status = "live"
    /\ SetEncoder(add_linestring(Encoder, pts), "add_linestring", pts)

AddRing(pts) ==
    /\ enc_status = "live"
    /\ SetEncoder(add_ring(Encoder, pts), "add_ring", pts)

\* into_vec, and GeometryDecoder::new on the vector it returns
IntoVec ==
    /\ enc_status = "live"
    /\ enc_status' = "consumed"
    /\ dbuf' = buf
    /\ pos' = 0 /\ cursor_x' = 0 /\ cursor_y' = 0
    /\ dec_status' = "fresh"
    /\ UNCHANGED <<overflow_checks, buf, prev_x, prev_y, calls, dec_op, result,
                   tag_vars, zz_vars, hil_vars>>

SetDecoder(r, op) ==
    /\ result' = [tag |-> r.tag, val |-> r.val, msg |-> r.msg]
    /\ pos' = r.d.pos /\ cursor_x' = r.d.cursor_x /\ cursor_y' = r.d.cursor_y
    /\ dec_status' = "used"
    /\ dec_op' = op
    /\ UNCHANGED <<overflow_checks, buf, prev_x, prev_y, enc_status, calls, dbuf,
                   tag_vars, zz_vars, hil_vars>>

DecodePoints ==
    /\ dec_status = "fresh"
    /\ SetDecoder(decode_points(dbuf, Decoder), "decode_points")

DecodeLinestrings ==
    /\ dec_status = "fresh"
    /\ SetDecoder(decode_linestrings(dbuf, Decoder), "decode_linestrings")

DecodePolygons ==
    /\ dec_status = "fresh"
    /\ SetDecoder(decode_polygons(dbuf, Decoder), "decode_polygons")

---------------------------------------------------------------------------
(* Geometry: inputs *)

\* vertices: ordinary ones, and the extremes of i32 on both axes
PointPool == {<<0, 0>>, <<1, 2>>, <<MaxI, -1>>, <<MinI, 0>>}

RECURSIVE SumLens(_)
SumLens(cs) == IF cs = <<>> THEN 0 ELSE Len(Head(cs).pts) + SumLens(Tail(cs))

\* the count field of a command word: the bits above the 3 command bits
CountCapacity == 2 ^ (Bits - 3)

\* one vertex list longer than the count field can tell: CountCapacity
\* segments between CountCapacity + 1 distinct vertices
LongLine == [i \in 1 .. (CountCapacity + 1) |-> <<i - 1, 0>>]

\* the inputs one more call may take within the bounds: short vertex lists
\* over PointPool, and as a first call LongLine and the line from (0,0) to
\* (10,10) of test_linestring_with_two_vertices
Inputs == IF Len(calls) < MaxCalls
          THEN UNION {[1 .. k -> PointPool] : k \in 0 .. (MaxVerts - SumLens(calls))}
               \cup (IF calls = <<>> THEN {LongLine, <<<<0, 0>>, <<10, 10>>>>} ELSE {})
          ELSE {}

---------------------------------------------------------------------------
(* add_points, into_vec, decode_points *)

PointsNext ==
    \/ \E pts \in Inputs : AddPoints(pts)
    \/ IntoVec
    \/ DecodePoints

PointsInit == EncoderInit /\ TagsIdle /\ ZigIdle /\ HilIdle

PointsSpec == PointsInit /\ [][PointsNext]_vars

---------------------------------------------------------------------------
(* add_linestring and add_ring, into_vec, decode_linestrings *)

PathsNext ==
    \/ \E pts \in Inputs : AddLinestring(pts)
    \/ \E pts \in Inputs : AddRing(pts)
    \/ IntoVec
    \/ DecodeLinestrings

PathsInit == EncoderInit /\ TagsIdle /\ ZigIdle /\ HilIdle

PathsSpec == PathsInit /\ [][PathsNext]_vars

---------------------------------------------------------------------------
(* add_ring on whole rings, into_vec, decode_polygons *)

\* a ring as wide as i32 allows, standing on a corner so that every delta
\* between neighbours fits an i32.  Clockwise (positive shoelace sum).
BigExt == << <<0, -MaxI>>, <<MaxI, 0>>, <<0, MaxI>>, <<-MaxI, 0>> >>

RingPool ==
    { <<<<2, 2>>, <<0, 2>>, <<0, 0>>>>,                    \* clockwise triangle
      <<<<1, 1>>, <<1, 2>>, <<2, 2>>>>,                    \* counter-clockwise triangle
      <<<<0, 0>>, <<0, 0>>, <<3, 0>>, <<3, 3>>, <<3, 3>>, <<0, 3>>>>,  \* clockwise, duplicates
      <<<<1, 1>>, <<1, 2>>, <<1, 2>>, <<2, 2>>, <<1, 1>>>>,  \* counter-clockwise, closed, duplicate
      <<<<0, 0>>, <<1, 1>>, <<2, 2>>>>,                    \* three vertices on a line
      <<<<1, 1>>, <<2, 2>>>>,                              \* two vertices
      <<<<1, 1>>>>,                                        \* one vertex
      BigExt }

PolysNext ==
    \/ \E ring \in RingPool : Len(calls) < MaxRings /\ AddRing(ring)
    \/ IntoVec
    \/ DecodePolygons

PolysInit == EncoderInit /\ TagsIdle /\ ZigIdle /\ HilIdle

PolysSpec == PolysInit /\ [][PolysNext]_vars

---------------------------------------------------------------------------
(* A decoder on a raw buffer *)

WordPool == {0, 1, 2, 3, 7, 9, 10, 15, 17, 23, TwoW - 2, TwoW - 1}

\* a path as it stands on the wire: the word head where MoveTo(1) belongs,
\* the start delta, a command word of id line and count Len(deltas) where the
\* LineTo belongs, the deltas, and what ends it
RECURSIVE DeltaWords(_)
DeltaWords(ds) ==
    IF ds = <<>> THEN <<>>
    ELSE <<zigzag(Head(ds)[1]), zigzag(Head(ds)[2])>> \o DeltaWords(Tail(ds))

RawPath(head, start, line, deltas, tail) ==
    <<head>> \o DeltaWords(<<start>>)
    \o <<Or32(line, Shl32(Len(deltas), 3))>> \o DeltaWords(deltas)
    \o tail

\* a path with the commands in their places
Path(start, deltas, tail) ==
    [head |-> GEOM_COMMAND_MOVE_TO_WITH_COUNT1, start |-> start,
     line |-> GEOM_COMMAND_LINE_TO, deltas |-> deltas, tail |-> tail]

ChunkPool ==
    { Path(<<0, 0>>, <<<<2, 0>>, <<0, 2>>>>, <<15>>),    \* clockwise ring
      Path(<<1, 1>>, <<<<0, 2>>, <<2, 0>>>>, <<15>>),    \* counter-clockwise ring
      Path(<<1, 1>>, <<>>, <<15>>),                      \* ring, LineTo count 0
      Path(<<0, 0>>, <<<<2, 3>>>>, <<15>>),              \* ring, LineTo count 1
      Path(<<-1, 0>>, <<<<0, 0>>>>, <<15>>),             \* ring, one zero delta
      Path(<<1, 1>>, <<<<1, 0>>>>, <<>>),                \* linestring
      Path(<<MaxI, MaxI>>, <<<<1, 0>>, <<0, 1>>>>, <<15>>),   \* leaves i32
      Path(<<0, -MaxI>>, <<<<MaxI, MaxI>>, <<-MaxI, MaxI>>, <<-MaxI, -MaxI>>>>,
           <<15>>),                                      \* clockwise, as wide as i32
      Path(<<0, 1>>, <<<<2, 0>>, <<0, 2>>>>, <<23>>),    \* closed by ClosePath(2)
      [Path(<<1, 1>>, <<<<1, 0>>>>, <<15>>) EXCEPT !.head = 17],   \* begins with MoveTo(2)
      [Path(<<1, 1>>, <<<<1, 0>>>>, <<15>>) EXCEPT !.head = 10],   \* begins with LineTo(1)
      [Path(<<1, 1>>, <<<<1, 0>>>>, <<15>>)
           EXCEPT !.line = GEOM_COMMAND_MOVE_TO] }       \* MoveTo where LineTo belongs

RECURSIVE ChunkWords(_)
ChunkWords(cs) ==
    IF cs = <<>> THEN <<>>
    ELSE LET c == Head(cs)
         IN  RawPath(c.head, c.start, c.line, c.deltas, c.tail) \o ChunkWords(Tail(cs))

WordBufs  == UNION {[1 .. k -> WordPool] : k \in 0 .. MaxWords}
ChunkSeqs == UNION {[1 .. k -> ChunkPool] : k \in 1 .. MaxChunks}

\* GeometryDecoder::new(buf) on a buffer of words, or on a buffer made of
\* whole paths (calls then records the paths)
RawInit ==
    /\ overflow_checks \in BOOLEAN
    /\ buf = <<>> /\ prev_x = 0 /\ prev_y = 0 /\ enc_status = "idle"
    /\ \/ calls = <<>> /\ dbuf \in WordBufs
       \/ \E cs \in ChunkSeqs : calls = cs /\ dbuf = ChunkWords(cs)
    /\ pos = 0 /\ cursor_x = 0 /\ cursor_y = 0
    /\ dec_status = "fresh" /\ dec_op = "none"
    /\ result = [tag |-> "none", val |-> <<>>, msg |-> ""]
    /\ TagsIdle /\ ZigIdle /\ HilIdle

RawNext == DecodePoints \/ DecodeLinestrings \/ DecodePolygons

RawSpec == RawInit /\ [][RawNext]_vars

---------------------------------------------------------------------------
(* add_points, add_linestring and add_ring on one encoder, into_vec, the three decoders *)

\* an ordinary vertex and one near the edge of i32: the step from the first to
\* the second is an i32, the step back is not
FewPoints == {<<1, 2>>, <<-MaxI, 0>>}

\* the inputs one more call may take: short vertex lists over FewPoints, the
\* empty one among them, and LongLine as a first call
FewInputs == IF Len(calls) < MaxCalls
             THEN UNION {[1 .. k -> FewPoints] : k \in 0 .. (MaxVerts - SumLens(calls))}
                  \cup (IF calls = <<>> THEN {LongLine} ELSE {})
             ELSE {}

EncoderNext ==
    \/ \E pts \in FewInputs : AddPoints(pts)
    \/ \E pts \in FewInputs : AddLinestring(pts)
    \/ \E pts \in FewInputs : AddRing(pts)
    \/ IntoVec
    \/ DecodePoints
    \/ DecodeLinestrings
    \/ DecodePolygons

EncoderSpecInit == EncoderInit /\ TagsIdle /\ ZigIdle /\ HilIdle

EncoderSpec == EncoderSpecInit /\ [][EncoderNext]_vars

---------------------------------------------------------------------------
(* add_ring, and decode_polygons on the words with another word for the last ClosePath *)

\* into_vec, and GeometryDecoder::new on the words it returned with w in the
\* place of the last one (w = 15: the vector as it was written)
NewDecoderOn(w) ==
    /\ enc_status = "live"
    /\ buf # <<>>
    /\ enc_status' = "consumed"
    /\ dbuf' = [buf EXCEPT ![Len(buf)] = w]
    /\ pos' = 0 /\ cursor_x' = 0 /\ cursor_y' = 0
    /\ dec_status' = "fresh"
    /\ UNCHANGED <<overflow_checks, buf, prev_x, prev_y, calls, dec_op, result,
                   tag_vars, zz_vars, hil_vars>>

ClosePathNext ==
    \/ \E ring \in RingPool : Len(calls) < MaxCalls /\ AddRing(ring)
    \/ \E w \in WordPool : NewDecoderOn(w)
    \/ DecodePolygons

ClosePathInit == EncoderInit /\ TagsIdle /\ ZigIdle /\ HilIdle

ClosePathSpec == ClosePathInit /\ [][ClosePathNext]_vars

---------------------------------------------------------------------------
(* add_linestring or add_ring, and the decoders on the first words of the vector *)

\* into_vec, and GeometryDecoder::new on the first k words of the vector
NewDecoderOnPrefix(k) ==
    /\ enc_status = "live"
    /\ k < Len(buf)
    /\ enc_status' = "consumed"
    /\ dbuf' = SubSeq(buf, 1, k)
    /\ pos' = 0 /\ cursor_x' = 0 /\ cursor_y' = 0
    /\ dec_status' = "fresh"
    /\ UNCHANGED <<overflow_checks, buf, prev_x, prev_y, calls, dec_op, result,
                   tag_vars, zz_vars, hil_vars>>

\* the paths one more call may take: one vertex, two, a triangle, the widest
\* ring, and LongLine as a first call
PrefixPool ==
    IF Len(calls) < MaxCalls
    THEN { <<<<1, 1>>>>,
           <<<<1, 1>>, <<2, 2>>>>,
           <<<<2, 2>>, <<0, 2>>, <<0, 0>>>>,
           BigExt }
         \cup (IF calls = <<>> THEN {LongLine} ELSE {})
    ELSE {}

\* an encoder is given linestrings only or rings only
PrefixNext ==
    \/ \E pts \in PrefixPool :
           /\ \A i \in 1 .. Len(calls) : calls[i].op = "add_linestring"
           /\ AddLinestring(pts)
    \/ \E pts \in PrefixPool :
           /\ \A i \in 1 .. Len(calls) : calls[i].op = "add_ring"
           /\ AddRing(pts)
    \/ \E k \in 0 .. Len(buf) : NewDecoderOnPrefix(k)
    \/ DecodeLinestrings
    \/ DecodePolygons

PrefixSpec == EncoderSpecInit /\ [][PrefixNext]_vars

---------------------------------------------------------------------------
(* decode_points on buffers made of whole runs *)

\* runs as they stand on the wire, a command word and the delta pairs after
\* it: MoveTo runs of 0, 1 and 2 pairs, one that reaches i32::MAX and one that
\* steps by 1, and words with every other command id where a MoveTo belongs
RunPool ==
    LET Run(word, deltas) == [word |-> word, deltas |-> deltas]
        MoveToRun(deltas) ==
            Run(Or32(GEOM_COMMAND_MOVE_TO, Shl32(Len(deltas), 3)), deltas)
    IN  { MoveToRun(<<>>),
          MoveToRun(<<<<1, 2>>>>),
          MoveToRun(<<<<-1, 0>>, <<2, -3>>>>),
          MoveToRun(<<<<MaxI, 0>>>>),
          MoveToRun(<<<<1, 1>>>>),
          Run(Or32(GEOM_COMMAND_LINE_TO, Shl32(1, 3)), <<<<1, 1>>>>),
          Run(GEOM_COMMAND_CLOSE_PATH_WITH_COUNT1, <<>>) }
        \cup { Run(Or32(id, Shl32(1, 3)), <<>>) : id \in {0, 3, 4, 5, 6} }

RECURSIVE RunWords(_)
RunWords(rs) ==
    IF rs = <<>> THEN <<>>
    ELSE <<Head(rs).word>> \o DeltaWords(Head(rs).deltas) \o RunWords(Tail(rs))

\* GeometryDecoder::new(buf) on a buffer made of whole runs (calls records them)
RunsInit ==
    /\ overflow_checks \in BOOLEAN
    /\ buf = <<>> /\ prev_x = 0 /\ prev_y = 0 /\ enc_status = "idle"
    /\ \E rs \in UNION {[1 .. k -> RunPool] : k \in 0 .. MaxChunks} :
           calls = rs /\ dbuf = RunWords(rs)
    /\ pos = 0 /\ cursor_x = 0 /\ cursor_y = 0
    /\ dec_status = "fresh" /\ dec_op = "none"
    /\ result = [tag |-> "none", val |-> <<>>, msg |-> ""]
    /\ TagsIdle /\ ZigIdle /\ HilIdle

RunsSpec == RunsInit /\ [][DecodePoints]_vars

---------------------------------------------------------------------------
(* Value and tile::Value *)

None    == <<>>
Some(x) == <<x>>

RECURSIVE Reverse(_)
Reverse(q) == IF q = <<>> THEN <<>> ELSE Append(Reverse(Tail(q)), Head(q))

\* A float is held by its bit pattern, most significant byte first.
\* f32::from_ne_bytes / f64::from_ne_bytes
from_ne_bytes(bytes) == [bits |-> IF little_endian THEN Reverse(bytes) ELSE bytes]
\* f32::to_ne_bytes / f64::to_ne_bytes
to_ne_bytes(f) == IF little_endian THEN Reverse(f.bits) ELSE f.bits

\* the variants of enum Value
Value_String(v) == [kind |-> "String", v |-> v]
Value_Float(v)  == [kind |-> "Float",  v |-> v]
Value_Double(v) == [kind |-> "Double", v |-> v]
Value_Int(v)    == [kind |-> "Int",    v |-> v]
Value_Uint(v)   == [kind |-> "Uint",   v |-> v]
Value_SInt(v)   == [kind |-> "SInt",   v |-> v]
Value_Bool(v)   == [kind |-> "Bool",   v |-> v]

\* tile::Value { ..Default::default() }
TileValueDefault ==
    [string_value |-> None, float_value |-> None, double_value |-> None,
     int_value |-> None, uint_value |-> None, sint_value |-> None,
     bool_value |-> None]

\* into_tile_value that stores an SInt in int_value
into_tile_value_sint_as_int(val) ==
    CASE val.kind = "String" -> [TileValueDefault EXCEPT !.string_value = Some(val.v)]
      [] val.kind = "Float"  -> [TileValueDefault EXCEPT !.float_value = Some(from_ne_bytes(val.v))]
      [] val.kind = "Double" -> [TileValueDefault EXCEPT !.double_value = Some(from_ne_bytes(val.v))]
      [] val.kind = "Int"    -> [TileValueDefault EXCEPT !.int_value = Some(val.v)]
      [] val.kind = "Uint"   -> [TileValueDefault EXCEPT !.uint_value = Some(val.v)]
      [] val.kind = "SInt"   -> [TileValueDefault EXCEPT !.int_value = Some(val.v)]
      [] val.kind = "Bool"   -> [TileValueDefault EXCEPT !.bool_value = Some(val.v)]

\* Value::into_tile_value
into_tile_value(val) ==
    CASE val.kind = "String" -> [TileValueDefault EXCEPT !.string_value = Some(val.v)]
      [] val.kind = "Float"  -> [TileValueDefault EXCEPT !.float_value = Some(from_ne_bytes(val.v))]
      [] val.kind = "Double" -> [TileValueDefault EXCEPT !.double_value = Some(from_ne_bytes(val.v))]
      [] val.kind = "Int"    -> [TileValueDefault EXCEPT !.int_value = Some(val.v)]
      [] val.kind = "Uint"   -> [TileValueDefault EXCEPT !.uint_value = Some(val.v)]
      [] val.kind = "SInt"   -> [TileValueDefault EXCEPT !.sint_value = Some(val.v)]
      [] val.kind = "Bool"   -> [TileValueDefault EXCEPT !.bool_value = Some(val.v)]

\* from_tile_value that reads sint_value back as Int
from_tile_value_sint_as_int(v) ==
    IF v.string_value # None THEN Some(Value_String(v.string_value[1]))
    ELSE IF v.float_value # None THEN Some(Value_Float(to_ne_bytes(v.float_value[1])))
    ELSE IF v.double_value # None THEN Some(Value_Double(to_ne_bytes(v.double_value[1])))
    ELSE IF v.int_value # None THEN Some(Value_Int(v.int_value[1]))
    ELSE IF v.uint_value # None THEN Some(Value_Uint(v.uint_value[1]))
    ELSE IF v.sint_value # None THEN Some(Value_Int(v.sint_value[1]))
    ELSE IF v.bool_value # None THEN Some(Value_Bool(v.bool_value[1]))
    ELSE None

\* from_tile_value that reads a tile value with no field set as Bool(false)
from_tile_value_default_as_false(v) ==
    IF v.string_value # None THEN Some(Value_String(v.string_value[1]))
    ELSE IF v.float_value # None THEN Some(Value_Float(to_ne_bytes(v.float_value[1])))
    ELSE IF v.double_value # None THEN Some(Value_Double(to_ne_bytes(v.double_value[1])))
    ELSE IF v.int_value # None THEN Some(Value_Int(v.int_value[1]))
    ELSE IF v.uint_value # None THEN Some(Value_Uint(v.uint_value[1]))
    ELSE IF v.sint_value # None THEN Some(Value_SInt(v.sint_value[1]))
    ELSE IF v.bool_value # None THEN Some(Value_Bool(v.bool_value[1]))
    ELSE Some(Value_Bool(FALSE))

\* Value::from_tile_value
from_tile_value(v) ==
    IF v.string_value # None THEN Some(Value_String(v.string_value[1]))
    ELSE IF v.float_value # None THEN Some(Value_Float(to_ne_bytes(v.float_value[1])))
    ELSE IF v.double_value # None THEN Some(Value_Double(to_ne_bytes(v.double_value[1])))
    ELSE IF v.int_value # None THEN Some(Value_Int(v.int_value[1]))
    ELSE IF v.uint_value # None THEN Some(Value_Uint(v.uint_value[1]))
    ELSE IF v.sint_value # None THEN Some(Value_SInt(v.sint_value[1]))
    ELSE IF v.bool_value # None THEN Some(Value_Bool(v.bool_value[1]))
    ELSE None

\* the conversions with From<i64> and From<i32> written like From<u64>'s,
\* into the plain Int
IntoValue_signed_as_int(in) ==
    CASE in.ty \in {"&str", "String"} -> Value_String(in.v)
      [] in.ty \in {"u64", "u32"}     -> Value_Uint(in.v)
      [] in.ty \in {"i64", "i32"}     -> Value_Int(in.v)
      [] in.ty \in {"f32", "f64"}     -> IF in.ty = "f32" THEN Value_Float(to_ne_bytes(in.v))
                                         ELSE Value_Double(to_ne_bytes(in.v))
      [] in.ty = "bool"               -> Value_Bool(in.v)
      [] in.ty = "Value"              -> in.v

\* impl From<&str | String | u64 | u32 | i64 | i32 | f32 | f64 | bool> for Value;
\* an input is [ty, v], ty the Rust type of the argument ("Value": no conversion)
IntoValue(in) ==
    CASE in.ty \in {"&str", "String"} -> Value_String(in.v)
      [] in.ty \in {"u64", "u32"}     -> Value_Uint(in.v)
      [] in.ty \in {"i64", "i32"}     -> IF in.v >= 0 THEN Value_Uint(in.v) ELSE Value_SInt(in.v)
      [] in.ty \in {"f32", "f64"}     -> IF in.ty = "f32" THEN Value_Float(to_ne_bytes(in.v))
                                         ELSE Value_Double(to_ne_bytes(in.v))
      [] in.ty = "bool"               -> Value_Bool(in.v)
      [] in.ty = "Value"              -> in.v

---------------------------------------------------------------------------
(* TagsEncoder *)

\* #[derive(PartialEq, Eq, Hash)] on enum Value: the same variant and payload
ValueEq(a, b) == a.kind = b.kind /\ a.v = b.v
\* equality of String keys
KeyEq(a, b) == a = b

\* IndexSet::get_index_of on the keys: Some(index from 0) or None
keys_get_index_of(set, key) ==
    IF \E i \in 1 .. Len(set) : KeyEq(set[i], key)
    THEN Some((CHOOSE i \in 1 .. Len(set) : KeyEq(set[i], key)) - 1)
    ELSE None

\* a lookup that takes the three integer variants for one: integers match by
\* their number alone
values_get_index_of_by_number(set, value) ==
    LET Match(a, b) ==
            IF a.kind \in {"Int", "Uint", "SInt"} /\ b.kind \in {"Int", "Uint", "SInt"}
            THEN a.v = b.v
            ELSE a.kind = b.kind /\ a.v = b.v
    IN  IF \E i \in 1 .. Len(set) : Match(set[i], value)
        THEN Some((CHOOSE i \in 1 .. Len(set) : Match(set[i], value)) - 1)
        ELSE None

\* IndexSet::get_index_of on the values
values_get_index_of(set, value) ==
    IF \E i \in 1 .. Len(set) : ValueEq(set[i], value)
    THEN Some((CHOOSE i \in 1 .. Len(set) : ValueEq(set[i], value)) - 1)
    ELSE None

\* an insertion that puts the new entry first and moves the others up
insert_full_front(set, x) == [set |-> <<x>> \o set, idx |-> 0]

\* IndexSet::insert_full(x).0 on a set that does not hold x: the set and the index
insert_full(set, x) == [set |-> Append(set, x), idx |-> Len(set)]

TagsEncoderNew == [keys |-> <<>>, values |-> <<>>, tags |-> <<>>]

\* `key_idx as u32`
IdxAsU32(i) == i % TwoW

\* add_inner that writes the value index before the key index
add_inner_value_first(t, key, value) ==
    LET found_key   == keys_get_index_of(t.keys, key)
        k == IF found_key = None THEN insert_full(t.keys, key)
             ELSE [set |-> t.keys, idx |-> found_key[1]]
        found_value == values_get_index_of(t.values, value)
        v == IF found_value = None THEN insert_full(t.values, value)
             ELSE [set |-> t.values, idx |-> found_value[1]]
    IN  [keys |-> k.set, values |-> v.set,
         tags |-> t.tags \o <<IdxAsU32(v.idx), IdxAsU32(k.idx)>>]

\* add_inner without the lookups: every add inserts its key and its value
add_inner_always_insert(t, key, value) ==
    LET k == insert_full(t.keys, key)
        v == insert_full(t.values, value)
    IN  [keys |-> k.set, values |-> v.set,
         tags |-> t.tags \o <<IdxAsU32(k.idx), IdxAsU32(v.idx)>>]

\* TagsEncoder::add_inner
add_inner(t, key, value) ==
    LET found_key   == keys_get_index_of(t.keys, key)
        k == IF found_key = None THEN insert_full(t.keys, key)
             ELSE [set |-> t.keys, idx |-> found_key[1]]
        found_value == values_get_index_of(t.values, value)
        v == IF found_value = None THEN insert_full(t.values, value)
             ELSE [set |-> t.values, idx |-> found_value[1]]
    IN  [keys |-> k.set, values |-> v.set,
         tags |-> t.tags \o <<IdxAsU32(k.idx), IdxAsU32(v.idx)>>]

\* TagsEncoder::add
add(t, key, in) == add_inner(t, key, IntoValue(in))

\* take_tags that hands out a copy and keeps the buffer
take_tags_keeps_buffer(t) == [ret |-> t.tags, t |-> t]

\* take_tags that starts the key dictionary afresh for the next feature
take_tags_clears_keys(t) == [ret |-> t.tags, t |-> [t EXCEPT !.tags = <<>>, !.keys = <<>>]]

\* TagsEncoder::take_tags: what it returns and the encoder it leaves
take_tags(t) == [ret |-> t.tags, t |-> [t EXCEPT !.tags = <<>>]]

\* TagsEncoder::into_keys_and_values
into_keys_and_values(t) ==
    [keys |-> t.keys,
     values |-> [i \in 1 .. Len(t.values) |-> into_tile_value(t.values[i])]]

---------------------------------------------------------------------------
(* TagsDecoder *)

\* the loop with `>` for `>=` in both bounds checks: the index equal to the
\* length passes them and the indexing panics
RECURSIVE TagsDecodeLoop_off_by_one(_, _, _, _, _)
TagsDecodeLoop_off_by_one(ks, vs, tg, i, res) ==
    IF i + 1 > Len(tg) THEN [tag |-> "Ok", val |-> res, msg |-> ""]
    ELSE LET key_idx   == tg[i]
             value_idx == tg[i + 1]
         IN  IF key_idx > Len(ks)
             THEN [tag |-> "Err", val |-> <<>>, msg |-> "Key index out of bounds"]
             ELSE IF value_idx > Len(vs)
             THEN [tag |-> "Err", val |-> <<>>, msg |-> "Value index out of bounds"]
             ELSE IF key_idx = Len(ks) \/ value_idx = Len(vs)
             THEN [tag |-> "Panic", val |-> <<>>, msg |-> "index out of bounds"]
             ELSE LET value == from_tile_value(vs[value_idx + 1])
                  IN  IF value = None
                      THEN [tag |-> "Err", val |-> <<>>, msg |-> "Invalid tile value"]
                      ELSE TagsDecodeLoop_off_by_one(ks, vs, tg, i + 2,
                                          Append(res, <<ks[key_idx + 1], value[1]>>))

\* the loop over tags.chunks_exact(2)
RECURSIVE TagsDecodeLoop(_, _, _, _, _)
TagsDecodeLoop(ks, vs, tg, i, res) ==
    IF i + 1 > Len(tg) THEN [tag |-> "Ok", val |-> res, msg |-> ""]
    ELSE LET key_idx   == tg[i]
             value_idx == tg[i + 1]
         IN  IF key_idx >= Len(ks)
             THEN [tag |-> "Err", val |-> <<>>, msg |-> "Key index out of bounds"]
             ELSE IF value_idx >= Len(vs)
             THEN [tag |-> "Err", val |-> <<>>, msg |-> "Value index out of bounds"]
             ELSE LET value == from_tile_value(vs[value_idx + 1])
                  IN  IF value = None
                      THEN [tag |-> "Err", val |-> <<>>, msg |-> "Invalid tile value"]
                      ELSE TagsDecodeLoop(ks, vs, tg, i + 2,
                                          Append(res, <<ks[key_idx + 1], value[1]>>))

\* decode without the check of the length: chunks_exact drops the last index
decode_no_length_check(ks, vs, tg) == TagsDecodeLoop(ks, vs, tg, 1, <<>>)

\* TagsDecoder::decode, on the decoder TagsDecoder::new(ks, vs)
decode(ks, vs, tg) ==
    IF Len(tg) % 2 # 0
    THEN [tag |-> "Err", val |-> <<>>, msg |-> "Tags array must have even length"]
    ELSE TagsDecodeLoop(ks, vs, tg, 1, <<>>)

---------------------------------------------------------------------------
(* Tags: actions *)

TagsEncoderNow == [keys |-> keys, values |-> values, tags |-> tags]

KeyPool == {"k0", "k1"}

\* 10.5f32 and 10.5f64, by their bits
F32_10_5 == [bits |-> <<65, 40, 0, 0>>]
F64_10_5 == [bits |-> <<64, 37, 0, 0, 0, 0, 0, 0>>]

InputPool ==
    << [ty |-> "&str",   v |-> "v0"],
       [ty |-> "i32",    v |-> 10],
       [ty |-> "i64",    v |-> -10],
       [ty |-> "f32",    v |-> F32_10_5],
       [ty |-> "f64",    v |-> F64_10_5],
       [ty |-> "bool",   v |-> TRUE],
       [ty |-> "Value",  v |-> Value_Int(10)] >>

\* TagsEncoder::new(), on either byte order
TagsInit ==
    /\ little_endian \in BOOLEAN
    /\ keys = <<>> /\ values = <<>> /\ tags = <<>> /\ tag_status = "live"
    /\ added = <<>> /\ taken = <<>>
    /\ out_keys = <<>> /\ out_values = <<>> /\ decoded = <<>>
    /\ GeomIdle /\ ZigIdle /\ HilIdle

RECURSIVE SumAdded(_)
SumAdded(fs) == IF fs = <<>> THEN 0 ELSE Len(Head(fs).pairs) + SumAdded(Tail(fs))

Add(key, in) ==
    /\ tag_status = "live"
    /\ Len(added) + SumAdded(taken) < MaxAdds
    /\ LET t == add(TagsEncoderNow, key, in)
       IN  /\ keys' = t.keys /\ values' = t.values /\ tags' = t.tags
           /\ added' = Append(added, [key |-> key, in |-> in, value |-> IntoValue(in),
                                      ki |-> t.tags[Len(t.tags) - 1],
                                      vi |-> t.tags[Len(t.tags)]])
    /\ UNCHANGED <<little_endian, tag_status, taken, out_keys, out_values, decoded,
                   geom_vars, zz_vars, hil_vars>>

TakeTags ==
    /\ tag_status = "live"
    /\ Len(taken) < MaxTakes
    /\ LET r == take_tags(TagsEncoderNow)
       IN  /\ keys' = r.t.keys /\ values' = r.t.values /\ tags' = r.t.tags
           /\ taken' = Append(taken, [tags |-> r.ret, pairs |-> added])
    /\ added' = <<>>
    /\ UNCHANGED <<little_endian, tag_status, out_keys, out_values, decoded,
                   geom_vars, zz_vars, hil_vars>>

IntoKeysAndValues ==
    /\ tag_status = "live"
    /\ LET r == into_keys_and_values(TagsEncoderNow)
       IN  out_keys' = r.keys /\ out_values' = r.values
    /\ tag_status' = "consumed"
    /\ UNCHANGED <<little_endian, keys, values, tags, added, taken, decoded,
                   geom_vars, zz_vars, hil_vars>>

\* TagsDecoder::new(&keys, &values).decode(&tags) on the next list taken
Decode ==
    /\ tag_status = "consumed"
    /\ Len(decoded) < Len(taken)
    /\ decoded' = Append(decoded, decode(out_keys, out_values,
                                         taken[Len(decoded) + 1].tags))
    /\ UNCHANGED <<little_endian, keys, values, tags, tag_status, added, taken,
                   out_keys, out_values, geom_vars, zz_vars, hil_vars>>

TagsNext ==
    \/ \E key \in KeyPool, n \in 1 .. Len(InputPool) : Add(key, InputPool[n])
    \/ TakeTags
    \/ IntoKeysAndValues
    \/ Decode

TagsSpec == TagsInit /\ [][TagsNext]_vars

---------------------------------------------------------------------------
(* TagsEncoder::add with numbers of every type under one key *)

\* 10 and -10 through every integer conversion and as explicit Values, and
\* 10.5 as f32 and as f64
NumberPool ==
    << [ty |-> "i32",   v |-> 10],
       [ty |-> "i64",   v |-> 10],
       [ty |-> "u32",   v |-> 10],
       [ty |-> "u64",   v |-> 10],
       [ty |-> "i32",   v |-> -10],
       [ty |-> "i64",   v |-> -10],
       [ty |-> "Value", v |-> Value_Int(10)],
       [ty |-> "Value", v |-> Value_SInt(10)],
       [ty |-> "Value", v |-> Value_Uint(10)],
       [ty |-> "Value", v |-> Value_Int(-10)],
       [ty |-> "f32",   v |-> F32_10_5],
       [ty |-> "f64",   v |-> F64_10_5] >>

ValuesNext ==
    \/ \E n \in 1 .. Len(NumberPool) : Add("k0", NumberPool[n])
    \/ TakeTags
    \/ IntoKeysAndValues
    \/ Decode

ValuesSpec == TagsInit /\ [][ValuesNext]_vars

----------------------------------------------------------------------------
(* TagsDecoder on dictionaries and index lists from anywhere *)

\* indices inside and outside the dictionaries, u32::MAX among them
IndexPool == {0, 1, 2, TwoW - 1}

IndexLists == UNION {[1 .. n -> IndexPool] : n \in 0 .. MaxIndices}

KeyDicts == {<<>>, <<"k0">>, <<"k0", "k1">>}

\* value dictionaries: none, one String, a Uint and a Bool, and a String
\* followed by a tile value with no field set
ValueDicts ==
    << <<>>,
       <<into_tile_value(Value_String("v0"))>>,
       <<into_tile_value(Value_Uint(10)), into_tile_value(Value_Bool(TRUE))>>,
       <<into_tile_value(Value_String("v0")), TileValueDefault>> >>

\* TagsDecoder::new(&out_keys, &out_values), and the index list it will be given
TagsDecoderInit ==
    /\ little_endian \in BOOLEAN
    /\ keys = <<>> /\ values = <<>> /\ tags = <<>> /\ tag_status = "consumed"
    /\ added = <<>>
    /\ out_keys \in KeyDicts
    /\ \E n \in 1 .. Len(ValueDicts) : out_values = ValueDicts[n]
    /\ \E tg \in IndexLists : taken = <<[tags |-> tg, pairs |-> <<>>]>>
    /\ decoded = <<>>
    /\ GeomIdle /\ ZigIdle /\ HilIdle

TagsDecoderNext == Decode

TagsDecoderSpec == TagsDecoderInit /\ [][TagsDecoderNext]_vars

----------------------------------------------------------------------------
(* Hilbert tile ids (tileid/hilbert.rs).  u32 has Bits bits and u64 2*Bits *)
(* bits, so the zooms whose ids fit, 0..=31 in the source, are 0..=Bits-1. *)

\* the highest zoom of a PMTiles id: 31 in the source
MaxZoom == Bits - 1

\* u64::BITS - v.leading_zeros(): the number of bits of v
RECURSIVE BitLen(_)
BitLen(v) == IF v = 0 THEN 0 ELSE 1 + BitLen(v \div 2)

\* `1 << n` in an integer of w bits: a shift by w or more panics with overflow
\* checks and shifts by n % w without
ShlOne(n, w) ==
    IF n >= w
    THEN (IF overflow_checks THEN [tag |-> "Panic", val |-> 0]
          ELSE [tag |-> "Ok", val |-> 2 ^ (n % w)])
    ELSE [tag |-> "Ok", val |-> 2 ^ n]

\* `((1 << (z * 2)) - 1) / 3` in u64: the number of tiles of the zooms below z
Acc(z) ==
    LET one == ShlOne((z * 2) % 256, 2 * Bits)
    IN  IF one.tag = "Panic" THEN one
        ELSE [tag |-> "Ok", val |-> (one.val - 1) \div 3]

\* rotate that only swaps, without the flip of the rx quadrant
rotate_swap_only(n, x, y, rx, ry) ==
    IF ry = 0 THEN <<y, x>> ELSE <<x, y>>

\* rotate
rotate(n, x, y, rx, ry) ==
    IF ry = 0
    THEN (IF rx # 0
          THEN <<(n - 1 - y) % TwoW, (n - 1 - x) % TwoW>>
          ELSE <<y, x>>)
    ELSE <<x, y>>

\* the fold of zxy_to_hilbert over (0..z).rev(), from a down to 0
RECURSIVE ZxyFold(_, _, _, _)
ZxyFold(a, x, y, acc) ==
    IF a < 0 THEN [tag |-> "Ok", val |-> acc]
    ELSE LET s == ShlOne(a, Bits)
         IN  IF s.tag = "Panic" THEN s
             ELSE LET rx   == And32(s.val, x)
                      ry   == And32(s.val, y)
                      r    == rotate(s.val, x, y, rx, ry)
                      m    == 3 * rx
                      term == (Xor32(m % TwoW, ry) * (2 ^ a)) % TwoL
                      sum  == acc + term
                  IN  IF overflow_checks /\ (m >= TwoW \/ sum >= TwoL)
                      THEN [tag |-> "Panic", val |-> 0]
                      ELSE ZxyFold(a - 1, r[1], r[2], sum % TwoL)

\* zxy_to_hilbert
zxy_to_hilbert(z, x, y) ==
    LET acc == Acc(z)
    IN  IF acc.tag = "Panic" THEN acc ELSE ZxyFold(z - 1, x, y, acc.val)

\* the fold of hilbert_to_zxy over 0..z, from a up
RECURSIVE HilFold(_, _, _, _, _)
HilFold(a, z, rest, x, y) ==
    IF a >= z THEN [tag |-> "Ok", val |-> <<z, x, y>>]
    ELSE LET s == ShlOne(a, Bits)
         IN  IF s.tag = "Panic" THEN [tag |-> "Panic", val |-> <<0, 0, 0>>]
             ELSE LET p  == rest % TwoW
                      rx == And32(s.val, Shr32(p, 1))
                      ry == And32(s.val, Xor32(p, rx))
                      r  == rotate(s.val, x, y, rx, ry)
                      nx == r[1] + rx
                      ny == r[2] + ry
                  IN  IF overflow_checks /\ (nx >= TwoW \/ ny >= TwoW)
                      THEN [tag |-> "Panic", val |-> <<0, 0, 0>>]
                      ELSE HilFold(a + 1, z, rest \div 2, nx % TwoW, ny % TwoW)

\* hilbert_to_zxy
hilbert_to_zxy(id) ==
    LET t    == 3 * id + 1
        bits == BitLen(t % TwoL)
        z    == (((bits - 1) % TwoW) \div 2) % 256
        acc  == Acc(z)
        fail == [tag |-> "Panic", val |-> <<0, 0, 0>>]
    IN  IF overflow_checks /\ (t >= TwoL \/ bits = 0) THEN fail
        ELSE IF acc.tag = "Panic" THEN fail
        ELSE IF overflow_checks /\ acc.val > id THEN fail
        ELSE HilFold(0, z, (id - acc.val) % TwoL, 0, 0)

\* a tile: a zoom, and x and y on its grid or one step off it
HilInit ==
    /\ overflow_checks \in BOOLEAN
    /\ buf = <<>> /\ prev_x = 0 /\ prev_y = 0 /\ enc_status = "idle" /\ calls = <<>>
    /\ dbuf = <<>> /\ pos = 0 /\ cursor_x = 0 /\ cursor_y = 0
    /\ dec_status = "idle" /\ dec_op = "none"
    /\ result = [tag |-> "none", val |-> <<>>, msg |-> ""]
    /\ TagsIdle /\ ZigIdle
    /\ hil_pc = "start"
    /\ hil_z \in 0 .. MaxZoom
    /\ hil_x \in 0 .. (2 ^ hil_z)
    /\ hil_y \in 0 .. (2 ^ hil_z)
    /\ hil_id = [tag |-> "none", val |-> 0]
    /\ hil_zxy = [tag |-> "none", val |-> <<0, 0, 0>>]

ZxyToHilbert ==
    /\ hil_pc = "start"
    /\ hil_id' = zxy_to_hilbert(hil_z, hil_x, hil_y)
    /\ hil_pc' = "encoded"
    /\ UNCHANGED <<hil_z, hil_x, hil_y, hil_zxy, geom_vars, tag_vars, zz_vars>>

HilbertToZxy ==
    /\ hil_pc = "encoded"
    /\ hil_id.tag = "Ok"
    /\ hil_zxy' = hilbert_to_zxy(hil_id.val)
    /\ hil_pc' = "decoded"
    /\ UNCHANGED <<hil_z, hil_x, hil_y, hil_id, geom_vars, tag_vars, zz_vars>>

HilNext == ZxyToHilbert \/ HilbertToZxy

HilSpec == HilInit /\ [][HilNext]_vars

---------------------------------------------------------------------------
(* zigzag and unzigzag applied to every i32 *)

ZigInit ==
    /\ GeomIdle /\ TagsIdle /\ HilIdle
    /\ zz_pc = "start" /\ zz_in \in I32 /\ zz_word = 0 /\ zz_out = 0

Zigzag ==
    /\ zz_pc = "start"
    /\ zz_word' = zigzag(zz_in)
    /\ zz_pc' = "encoded"
    /\ UNCHANGED <<zz_in, zz_out, geom_vars, tag_vars, hil_vars>>

Unzigzag ==
    /\ zz_pc = "encoded"
    /\ zz_out' = unzigzag(zz_word)
    /\ zz_pc' = "decoded"
    /\ UNCHANGED <<zz_in, zz_word, geom_vars, tag_vars, hil_vars>>

ZigNext == Zigzag \/ Unzigzag

ZigSpec == ZigInit /\ [][ZigNext]_vars

\* C6: for every i32 v, i32::MIN and i32::MAX included, zigzag(v) is a
\* u32 word and unzigzag(zigzag(v)) = v.
C6_ZigzagRoundTrip ==
    /\ zz_pc \in {"encoded", "decoded"} => zz_word \in U32
    /\ zz_pc = "decoded" => zz_out = zz_in

\* C6 witness: the round trip has run on i32::MIN.
C6_Witness == zz_pc = "decoded" /\ zz_in = MinI /\ zz_word = TwoW - 1

---------------------------------------------------------------------------
(* Geometry: what the statements speak of *)

\* a vertex list without the vertices that equal their predecessor
RECURSIVE WithoutRepeats(_)
WithoutRepeats(pts) ==
    IF Len(pts) <= 1 THEN pts
    ELSE LET front == WithoutRepeats(SubSeq(pts, 1, Len(pts) - 1))
         IN  IF pts[Len(pts)] = pts[Len(pts) - 1] THEN front
             ELSE Append(front, pts[Len(pts)])

\* what a linestring is expected to decode to
ExpectedLine(pts) ==
    IF Len(WithoutRepeats(pts)) = 1 THEN <<pts[1], pts[1]>> ELSE WithoutRepeats(pts)

\* the vertices of all calls, in call order
RECURSIVE AllVertices(_)
AllVertices(cs) ==
    IF cs = <<>> THEN <<>> ELSE Head(cs).pts \o AllVertices(Tail(cs))

\* every delta the encoder computes (vertex minus the vertex before it,
\* the first one minus (0,0)) is an i32
DeltasFit(cs) ==
    LET v == <<<<0, 0>>>> \o AllVertices(cs)
    IN  \A i \in 1 .. (Len(v) - 1) :
            /\ (v[i + 1][1] - v[i][1]) \in I32
            /\ (v[i + 1][2] - v[i][2]) \in I32

\* every call emits fewer coordinate pairs than the count field can tell
CountsFit(cs) ==
    \A i \in 1 .. Len(cs) : Len(WithoutRepeats(cs[i].pts)) < CountCapacity

OnlyCalls(op) == \A i \in 1 .. Len(calls) : calls[i].op = op

NonEmptyCalls == \A i \in 1 .. Len(calls) : calls[i].pts # <<>>

\* the encoder was stopped by a panic
EncoderPanicked == enc_status = "panicked"

Decoded(op) == dec_status = "used" /\ dec_op = op

---------------------------------------------------------------------------
(* C1 *)

\* C1: on every sequence of u32 words, decode_points, decode_linestrings
\* and decode_polygons return Ok or Err and never panic.
C1_NeverPanics ==
    dec_status = "used" => result.tag \in {"Ok", "Err"}

---------------------------------------------------------------------------
(* C2 *)

ExpectedLinestrings == [i \in 1 .. Len(calls) |-> ExpectedLine(calls[i].pts)]

LinestringsComeBack ==
    /\ ~EncoderPanicked
    /\ Decoded("decode_linestrings") =>
           result.tag = "Ok" /\ result.val = ExpectedLinestrings

\* C2 as stated: any sequence of non-empty linestrings given to
\* add_linestring decodes, by decode_linestrings, to the same linestrings
\* without repeated vertices (an all-identical one to its vertex twice).
C2_AnyLinestrings ==
    (OnlyCalls("add_linestring") /\ NonEmptyCalls) => LinestringsComeBack

\* C2: non-empty linestrings whose deltas are all i32 and that each emit
\* fewer segments than the count field holds decode, by decode_linestrings,
\* to the same linestrings in the same order, each without the vertices that
\* equal their predecessor, an all-identical one to its vertex twice.
C2_LinestringRoundTrip ==
    (OnlyCalls("add_linestring") /\ NonEmptyCalls
        /\ DeltasFit(calls) /\ CountsFit(calls)) => LinestringsComeBack

\* C2 witness: two linestrings came back, the first all-identical and
\* at i32::MIN, and each decoded to its vertex twice.
C2_Witness ==
    /\ Decoded("decode_linestrings") /\ result.tag = "Ok"
    /\ OnlyCalls("add_linestring") /\ DeltasFit(calls)
    /\ Len(calls) = 2 /\ Len(result.val) = 2
    /\ calls[1].pts = <<<<MinI, 0>>, <<MinI, 0>>>>
    /\ result.val[1] = <<<<MinI, 0>>, <<MinI, 0>>>>
    /\ calls[2].pts = <<<<MinI, 0>>>>
    /\ result.val[2] = <<<<MinI, 0>>, <<MinI, 0>>>>

---------------------------------------------------------------------------
(* C4 *)

RECURSIVE ExpectedPoints(_)
ExpectedPoints(cs) ==
    IF cs = <<>> THEN <<>>
    ELSE WithoutRepeats(Head(cs).pts) \o ExpectedPoints(Tail(cs))

PointsComeBack ==
    /\ ~EncoderPanicked
    /\ Decoded("decode_points") =>
           result.tag = "Ok" /\ result.val = ExpectedPoints(calls)

\* C4 as stated: any sequence of add_points calls decodes, by decode_points,
\* to the calls' points in order, repeats within a call removed.
C4_AnyPoints == OnlyCalls("add_points") => PointsComeBack

\* C4: add_points calls whose deltas are all i32 and that each emit fewer
\* points than the count field holds decode, by decode_points, to the
\* concatenation of the calls' points, each call without the points that
\* equal their predecessor in that call; the first point of a call is kept.
C4_PointsRoundTrip ==
    (OnlyCalls("add_points") /\ DeltasFit(calls) /\ CountsFit(calls))
        => PointsComeBack

\* C4 witness: a call with a repeated point, then a call that starts at the
\* point the first ended on; the repeat is gone and the start is kept.
C4_Witness ==
    /\ Decoded("decode_points") /\ result.tag = "Ok"
    /\ Len(calls) = 2
    /\ calls[1].pts = <<<<1, 2>>, <<1, 2>>>>
    /\ calls[2].pts = <<<<1, 2>>>>
    /\ result.val = <<<<1, 2>>, <<1, 2>>>>

---------------------------------------------------------------------------
(* C9 *)

\* the words of call i: from where it started up to the next call's start
CallWords(i) ==
    SubSeq(buf, calls[i].at + 1,
           IF i < Len(calls) THEN calls[i + 1].at ELSE Len(buf))

\* call i ran to its end
Completed(i) == i < Len(calls) \/ ~EncoderPanicked

LineToCount(i) == Shr32(CallWords(i)[4], 3)

Degenerate(pts) == pts # <<>> /\ Len(WithoutRepeats(pts)) = 1

ClosingWords(i) ==
    IF calls[i].op = "add_ring" THEN <<GEOM_COMMAND_CLOSE_PATH_WITH_COUNT1>> ELSE <<>>

DegenerateLineHasOneZeroSegment(i) ==
    Degenerate(calls[i].pts) =>
        /\ Len(CallWords(i)) = 6 + Len(ClosingWords(i))
        /\ SubSeq(CallWords(i), 4, Len(CallWords(i))) =
               <<Or32(GEOM_COMMAND_LINE_TO, Shl32(1, 3)), 0, 0>> \o ClosingWords(i)

\* C9 as stated: a degenerate line gets LineTo count 1 and the pair (0,0),
\* and every non-empty input gets a LineTo count of at least 1.
C9_AnyLineToCount ==
    \A i \in 1 .. Len(calls) :
        (Completed(i) /\ calls[i].pts # <<>>) =>
            /\ DegenerateLineHasOneZeroSegment(i)
            /\ And32(CallWords(i)[4], 7) = GEOM_COMMAND_LINE_TO
            /\ LineToCount(i) >= 1

\* C9: a line or ring whose vertices all equal the first gets the LineTo
\* word of count 1 followed by the pair (0,0) and nothing else but the ring's
\* ClosePath; every non-empty input that emits fewer segments than the count
\* field holds gets a LineTo count of at least 1, the number of its segments.
C9_LineToCount ==
    \A i \in 1 .. Len(calls) :
        (Completed(i) /\ calls[i].pts # <<>>) =>
            /\ DegenerateLineHasOneZeroSegment(i)
            /\ And32(CallWords(i)[4], 7) = GEOM_COMMAND_LINE_TO
            /\ CountsFit(<<calls[i]>>) =>
                   /\ LineToCount(i) >= 1
                   /\ ~Degenerate(calls[i].pts) =>
                          LineToCount(i) = Len(WithoutRepeats(calls[i].pts)) - 1

\* C9 witness: a ring of three identical vertices at i32::MIN was encoded.
C9_Witness ==
    /\ Len(calls) = 1 /\ ~EncoderPanicked
    /\ calls[1].op = "add_ring"
    /\ calls[1].pts = <<<<MinI, 0>>, <<MinI, 0>>, <<MinI, 0>>>>
    /\ buf = <<GEOM_COMMAND_MOVE_TO_WITH_COUNT1, TwoW - 1, 0, 10, 0, 0,
               GEOM_COMMAND_CLOSE_PATH_WITH_COUNT1>>

---------------------------------------------------------------------------
(* Polygons: what the statements speak of *)

\* the shoelace sum of a ring over the integers: twice its signed area
RECURSIVE ShoelaceFrom(_, _)
ShoelaceFrom(ring, i) ==
    IF i > Len(ring) THEN 0
    ELSE LET j == (i % Len(ring)) + 1
         IN  ring[i][1] * ring[j][2] - ring[j][1] * ring[i][2]
             + ShoelaceFrom(ring, i + 1)

Shoelace(ring) == ShoelaceFrom(ring, 1)

\* the rings of cs grouped as given: a ring of positive shoelace sum opens a
\* polygon, the rings of negative sum after it are its holes
RECURSIVE GroupedAsGiven(_)
GroupedAsGiven(cs) ==
    IF cs = <<>> THEN <<>>
    ELSE LET front == GroupedAsGiven(SubSeq(cs, 1, Len(cs) - 1))
             ring  == WithoutRepeats(cs[Len(cs)].pts)
         IN  IF Shoelace(cs[Len(cs)].pts) > 0 \/ front = <<>>
             THEN Append(front, <<ring>>)
             ELSE [front EXCEPT ![Len(front)] = Append(@, ring)]

\* exteriors of positive shoelace sum, each followed by holes of negative sum
ValidWinding(cs) ==
    /\ cs # <<>> => Shoelace(cs[1].pts) > 0
    /\ \A i \in 1 .. Len(cs) : Shoelace(cs[i].pts) # 0

---------------------------------------------------------------------------
(* C3 *)

\* C3: rings given to add_ring polygon by polygon, each polygon an exterior
\* ring of positive shoelace sum followed by interior rings of negative sum
\* (every delta an i32, every count within the count field), decode, by
\* decode_polygons, to exactly those polygons with the same rings in the same
\* order, each ring without its repeated vertices.
C3_PolygonRoundTrip ==
    (OnlyCalls("add_ring") /\ ValidWinding(calls)
        /\ DeltasFit(calls) /\ CountsFit(calls)) =>
        /\ ~EncoderPanicked
        /\ Decoded("decode_polygons") =>
               result.tag = "Ok" /\ result.val = GroupedAsGiven(calls)

---------------------------------------------------------------------------
(* C7 *)

\* an exterior ring, then only interior rings, then an exterior ring
ExteriorHolesExterior(cs) ==
    /\ Len(cs) >= 2
    /\ Shoelace(cs[1].pts) > 0
    /\ Shoelace(cs[Len(cs)].pts) > 0
    /\ \A i \in 2 .. (Len(cs) - 1) : Shoelace(cs[i].pts) < 0

\* C7: decode_polygons on the stream of an exterior ring, N >= 0 interior
\* rings and another exterior ring returns exactly 2 polygons: the first
\* 1+N rings in their order, and the last ring alone.
C7_TwoPolygons ==
    (ExteriorHolesExterior(calls) /\ DeltasFit(calls) /\ CountsFit(calls)
        /\ Decoded("decode_polygons")) =>
        /\ result.tag = "Ok"
        /\ Len(result.val) = 2
        /\ result.val[1] = [i \in 1 .. (Len(calls) - 1) |-> WithoutRepeats(calls[i].pts)]
        /\ result.val[2] = <<WithoutRepeats(calls[Len(calls)].pts)>>

---------------------------------------------------------------------------
(* C8 *)

\* the vertices reached from cursor c along the deltas ds, as the decoder adds them
RECURSIVE Walk(_, _)
Walk(c, ds) ==
    IF ds = <<>> THEN <<>>
    ELSE LET n == <<Wrap32(c[1] + Head(ds)[1]), Wrap32(c[2] + Head(ds)[2])>>
         IN  <<n>> \o Walk(n, Tail(ds))

\* the rings the paths cs stand for, the cursor carried from path to path
RECURSIVE PathRings(_, _)
PathRings(c, cs) ==
    IF cs = <<>> THEN <<>>
    ELSE LET ring == Walk(c, <<Head(cs).start>> \o Head(cs).deltas)
         IN  <<ring>> \o PathRings(ring[Len(ring)], Tail(cs))

\* the rings of all polygons, in order
RECURSIVE Flatten(_)
Flatten(polygons) ==
    IF polygons = <<>> THEN <<>> ELSE Head(polygons) \o Flatten(Tail(polygons))

\* C8: in decode_polygons a ring of fewer than 3 vertices is interior,
\* whatever its coordinates: it is kept, in stream order, in the polygon that
\* is open when it is read, and no polygon after the first begins with it.
C8_ShortRingIsInterior ==
    (Decoded("decode_polygons") /\ result.tag = "Ok") =>
        /\ \A k \in 2 .. Len(result.val) : Len(result.val[k][1]) >= 3
        /\ calls # <<>> => Flatten(result.val) = PathRings(<<0, 0>>, calls)

\* C8 witness: after a clockwise ring, a ring of one vertex (LineTo count 0)
\* and a ring of two vertices were read; all three are in one polygon.
C8_Witness ==
    /\ Decoded("decode_polygons") /\ result.tag = "Ok"
    /\ Len(calls) = 3
    /\ Len(result.val) = 1 /\ Len(result.val[1]) = 3
    /\ Shoelace(result.val[1][1]) > 0
    /\ Len(result.val[1][2]) = 1
    /\ Len(result.val[1][3]) = 2

---------------------------------------------------------------------------
(* Tags: what the statements speak of *)

\* the decoded pairs are the added pairs: same length, same order
SamePairs(val, pairs) ==
    /\ Len(val) = Len(pairs)
    /\ \A i \in 1 .. Len(pairs) :
           /\ KeyEq(val[i][1], pairs[i].key)
           /\ ValueEq(val[i][2], pairs[i].value)

\* every add made so far, in order
RECURSIVE PairsTaken(_)
PairsTaken(fs) ==
    IF fs = <<>> THEN <<>> ELSE Head(fs).pairs \o PairsTaken(Tail(fs))

AllAdds == PairsTaken(taken) \o added

\* how many adds brought a key, or a value, not added before
DistinctKeys(a) ==
    Cardinality({i \in 1 .. Len(a) : \A j \in 1 .. (i - 1) : ~KeyEq(a[j].key, a[i].key)})
DistinctValues(a) ==
    Cardinality({i \in 1 .. Len(a) :
                    \A j \in 1 .. (i - 1) : ~ValueEq(a[j].value, a[i].value)})

---------------------------------------------------------------------------
(* C5 *)

\* C5: after add calls on a fresh TagsEncoder, decoding what take_tags
\* returned, with a TagsDecoder on what into_keys_and_values returned, gives
\* Ok with exactly the added (key, value) pairs, same length and same order.
C5_TagRoundTrip ==
    Len(decoded) >= 1 =>
        /\ decoded[1].tag = "Ok"
        /\ SamePairs(decoded[1].val, taken[1].pairs)

\* C5 witness: a Float and a negative integer added under one key on a
\* little-endian machine have been decoded.
C5_Witness ==
    /\ little_endian
    /\ Len(decoded) >= 1 /\ decoded[1].tag = "Ok"
    /\ Len(taken[1].pairs) = 2
    /\ taken[1].pairs[1].key = taken[1].pairs[2].key
    /\ taken[1].pairs[1].value.kind = "Float"
    /\ taken[1].pairs[2].value.kind = "SInt"
    /\ decoded[1].val[2][2].kind = "SInt"

---------------------------------------------------------------------------
(* C10 *)

SameIndexAsFirstAdd(a) ==
    \A i, j \in 1 .. Len(a) :
        /\ KeyEq(a[i].key, a[j].key) => a[i].ki = a[j].ki
        /\ ValueEq(a[i].value, a[j].value) => a[i].vi = a[j].vi

NoDuplicates(list) ==
    \A i, j \in 1 .. Len(list) : i # j => list[i] # list[j]

\* C10: an add of a key added before, or of a value of the same variant and
\* bits as one added before, emits the index its first add emitted; the lists
\* into_keys_and_values returns hold no duplicates and are as long as the
\* numbers of distinct keys and distinct values added.
C10_DictionaryDedup ==
    LET a == AllAdds
    IN  /\ SameIndexAsFirstAdd(a)
        /\ tag_status = "consumed" =>
               /\ NoDuplicates(out_keys)
               /\ NoDuplicates(out_values)
               /\ Len(out_keys) = DistinctKeys(a)
               /\ Len(out_values) = DistinctValues(a)

\* C10 witness: 10i32 was added twice under one key, and one key and one
\* value came out.
C10_Witness ==
    /\ tag_status = "consumed"
    /\ Len(AllAdds) = 2
    /\ AllAdds[1].ki = AllAdds[2].ki /\ AllAdds[1].vi = AllAdds[2].vi
    /\ AllAdds[1].value.kind = "Uint"
    /\ Len(out_keys) = 1 /\ Len(out_values) = 1

----------------------------------------------------------------------------
(* C11: dictionary indices in first-seen order *)

HoldsKey(list, key) == \E i \in 1 .. Len(list) : KeyEq(list[i], key)

HoldsValue(list, value) == \E i \in 1 .. Len(list) : ValueEq(list[i], value)

\* the distinct keys of the adds a, each at the place of its first add
RECURSIVE FirstSeenKeys(_)
FirstSeenKeys(a) ==
    IF a = <<>> THEN <<>>
    ELSE LET before == FirstSeenKeys(SubSeq(a, 1, Len(a) - 1))
             key    == a[Len(a)].key
         IN  IF HoldsKey(before, key) THEN before ELSE Append(before, key)

\* the distinct values of the adds a, each at the place of its first add
RECURSIVE FirstSeenValues(_)
FirstSeenValues(a) ==
    IF a = <<>> THEN <<>>
    ELSE LET before == FirstSeenValues(SubSeq(a, 1, Len(a) - 1))
             value  == a[Len(a)].value
         IN  IF HoldsValue(before, value) THEN before ELSE Append(before, value)

\* the index (from 0) at which list holds the key: the number of distinct keys
\* first added before it
KeyRank(list, key) ==
    (CHOOSE i \in 1 .. Len(list) : KeyEq(list[i], key)) - 1

ValueRank(list, value) ==
    (CHOOSE i \in 1 .. Len(list) : ValueEq(list[i], value)) - 1

\* C11: the index add emits for a key (value) is the number of distinct keys
\* (values) added to the encoder before the first add of that key (value), so
\* the first key and the first value ever added have index 0; and
\* into_keys_and_values returns the keys and the values in that order.
C11_FirstSeenOrder ==
    LET a  == AllAdds
        fk == FirstSeenKeys(a)
        fv == FirstSeenValues(a)
    IN  /\ \A i \in 1 .. Len(a) :
               /\ a[i].ki = KeyRank(fk, a[i].key)
               /\ a[i].vi = ValueRank(fv, a[i].value)
        /\ a # <<>> => a[1].ki = 0 /\ a[1].vi = 0
        /\ tag_status = "consumed" =>
               /\ out_keys = fk
               /\ Len(out_values) = Len(fv)
               /\ \A j \in 1 .. Len(fv) : out_values[j] = into_tile_value(fv[j])

\* C11 witness: a second key and a second value were added after the first,
\* and the dictionaries came out.
C11_Witness ==
    /\ tag_status = "consumed"
    /\ Len(AllAdds) = 2
    /\ AllAdds[1].ki = 0 /\ AllAdds[2].ki = 1
    /\ AllAdds[1].vi = 0 /\ AllAdds[2].vi = 1
    /\ Len(out_keys) = 2 /\ Len(out_values) = 2

----------------------------------------------------------------------------
(* C12: integer routing *)

GenericInteger(in) == in.ty \in {"i32", "i64", "u32", "u64"}

\* C12: a non-negative i32 or i64 and a u32 or u64 of the same magnitude give
\* one Uint entry with one value index; a negative i32 or i64 gives an SInt
\* entry whose index no Uint or Int entry has; an Int entry comes only from an
\* explicit Value::Int.
C12_IntegerRouting ==
    LET a == AllAdds
    IN  \A i \in 1 .. Len(a) :
            /\ (GenericInteger(a[i].in) /\ a[i].in.v >= 0) =>
                   /\ a[i].value.kind = "Uint" /\ a[i].value.v = a[i].in.v
                   /\ \A j \in 1 .. Len(a) :
                          (GenericInteger(a[j].in) /\ a[j].in.v = a[i].in.v)
                              => a[j].vi = a[i].vi
                   /\ tag_status = "consumed" =>
                          out_values[a[i].vi + 1] =
                              [TileValueDefault EXCEPT !.uint_value = Some(a[i].in.v)]
            /\ (GenericInteger(a[i].in) /\ a[i].in.v < 0) =>
                   /\ a[i].value.kind = "SInt" /\ a[i].value.v = a[i].in.v
                   /\ \A j \in 1 .. Len(a) :
                          a[j].value.kind \in {"Uint", "Int"} => a[j].vi # a[i].vi
                   /\ tag_status = "consumed" =>
                          out_values[a[i].vi + 1] =
                              [TileValueDefault EXCEPT !.sint_value = Some(a[i].in.v)]
            /\ a[i].value.kind = "Int" =>
                   a[i].in.ty = "Value" /\ a[i].in.v.kind = "Int"

\* C12 witness: 10i64 and 10u32 were added and share the one Uint entry.
C12_Witness ==
    /\ Len(AllAdds) = 2
    /\ AllAdds[1].in.ty = "i64" /\ AllAdds[1].in.v = 10
    /\ AllAdds[2].in.ty = "u32" /\ AllAdds[2].in.v = 10
    /\ AllAdds[1].vi = 0 /\ AllAdds[2].vi = 0
    /\ tag_status = "consumed" /\ Len(out_values) = 1

----------------------------------------------------------------------------
(* C13: value equality is type-tagged *)

SameVariantAndPayload(a, b) == a.kind = b.kind /\ a.v = b.v

IntegerKinds == {"Int", "Uint", "SInt"}

\* C13: two added values have the same value index only when they are of the
\* same variant with the same payload: a Float and a Double never share an
\* index, and Int(n), Uint(n) and SInt(n) have pairwise different indices.
C13_TypeTagged ==
    LET a == AllAdds
    IN  \A i, j \in 1 .. Len(a) :
            /\ a[i].vi = a[j].vi => SameVariantAndPayload(a[i].value, a[j].value)
            /\ (a[i].value.kind = "Float" /\ a[j].value.kind = "Double")
                   => a[i].vi # a[j].vi
            /\ (/\ a[i].value.kind \in IntegerKinds
                /\ a[j].value.kind \in IntegerKinds
                /\ a[i].value.kind # a[j].value.kind
                /\ a[i].value.v = a[j].value.v)
                   => a[i].vi # a[j].vi

\* C13 witness: Value::Int(10) and Value::SInt(10) were added and got the
\* indices 0 and 1.
C13_Witness ==
    /\ Len(AllAdds) = 2
    /\ AllAdds[1].value.kind = "Int" /\ AllAdds[1].value.v = 10
    /\ AllAdds[2].value.kind = "SInt" /\ AllAdds[2].value.v = 10
    /\ AllAdds[1].vi = 0 /\ AllAdds[2].vi = 1
    /\ Len(values) = 2

----------------------------------------------------------------------------
(* C14, C15: TagsDecoder::decode on index lists it must refuse *)

\* a pair of the index list tg points outside the dictionaries ks, vs
PairOutOfBounds(ks, vs, tg) ==
    \E p \in 1 .. (Len(tg) \div 2) :
        tg[2 * p - 1] >= Len(ks) \/ tg[2 * p] >= Len(vs)

AllInBounds(ks, vs, tg) ==
    \A i \in 1 .. Len(tg) : tg[i] < (IF i % 2 = 1 THEN Len(ks) ELSE Len(vs))

\* C14: decode returns Err for every index list of odd length, also when every
\* index is in bounds, and gives no key/value pair then.
C14_OddLengthIsErr ==
    \A k \in 1 .. Len(decoded) :
        (Len(taken[k].tags) % 2 = 1) =>
            /\ decoded[k].tag = "Err"
            /\ decoded[k].val = <<>>

\* C14 witness: three indices, each inside its dictionary, were refused.
C14_Witness ==
    /\ Len(decoded) = 1
    /\ Len(taken[1].tags) = 3
    /\ AllInBounds(out_keys, out_values, taken[1].tags)
    /\ decoded[1].tag = "Err"

\* C15: decode returns Err, and never indexes outside a dictionary, whenever
\* some pair of an even-length index list has a key index >= the number of keys
\* or a value index >= the number of values, wherever the pair stands; with
\* both dictionaries empty every non-empty index list is refused.
C15_OutOfBoundsIsErr ==
    \A k \in 1 .. Len(decoded) :
        LET tg == taken[k].tags
        IN  /\ (Len(tg) % 2 = 0 /\ PairOutOfBounds(out_keys, out_values, tg)) =>
                   /\ decoded[k].tag = "Err"
                   /\ decoded[k].val = <<>>
            /\ (tg # <<>> /\ out_keys = <<>> /\ out_values = <<>>) =>
                   decoded[k].tag = "Err"

\* C15 witness: the first pair was inside the dictionaries, the second had a
\* key index equal to the number of keys, and the list was refused.
C15_Witness ==
    /\ Len(decoded) = 1
    /\ Len(taken[1].tags) = 4
    /\ taken[1].tags[1] < Len(out_keys) /\ taken[1].tags[2] < Len(out_values)
    /\ taken[1].tags[3] = Len(out_keys) /\ taken[1].tags[4] < Len(out_values)
    /\ decoded[1].tag = "Err" /\ decoded[1].msg = "Key index out of bounds"

----------------------------------------------------------------------------
(* C16: malformed commands *)

\* the command id of the first word of the buffer
FirstCommand == And32(dbuf[1], 7)

\* the path c has another word where MoveTo(1) belongs, or another command
\* where LineTo belongs
Malformed(c) ==
    c.head # GEOM_COMMAND_MOVE_TO_WITH_COUNT1 \/ c.line # GEOM_COMMAND_LINE_TO

\* the decoder returned what C16 speaks of, whenever the buffer is one it
\* speaks of
MalformedIsRefused(outcomes) ==
    dec_status = "used" =>
        /\ (dbuf # <<>> /\ FirstCommand = GEOM_COMMAND_LINE_TO)
               => result.tag \in outcomes
        /\ dec_op \in {"decode_linestrings", "decode_polygons"} =>
               /\ (dbuf # <<>> /\ dbuf[1] # GEOM_COMMAND_MOVE_TO_WITH_COUNT1)
                      => result.tag \in outcomes
               /\ (\E i \in 1 .. Len(calls) : Malformed(calls[i]))
                      => result.tag \in outcomes

\* C16: the three decoders return Err for a buffer whose first command is
\* LineTo; decode_linestrings and decode_polygons return Err whenever the word
\* at the start of a path is not MoveTo with count 1, and whenever the word
\* after the start coordinate is not a LineTo.
C16_MalformedIsErr == MalformedIsRefused({"Err"})

----------------------------------------------------------------------------
(* C17: the ClosePath word *)

\* the words of a completed add_ring call on a non-empty input end with the
\* word 15, which stands right after the LineTo run and nowhere else
RingClosedBy15(i) ==
    LET w == CallWords(i)
    IN  /\ Len(w) = 4 + 2 * LineToCount(i) + 1
        /\ w[Len(w)] = GEOM_COMMAND_CLOSE_PATH_WITH_COUNT1
        /\ w[Len(w)] = 15

EveryRingClosedBy15 ==
    \A i \in 1 .. Len(calls) :
        (calls[i].op = "add_ring" /\ calls[i].pts # <<>> /\ Completed(i))
            => RingClosedBy15(i)

\* the word the decoder found where the last ring's ClosePath belongs
LastClosePath == dbuf[Len(dbuf)]

\* C17 as stated: add_ring ends every ring with the word 15, and
\* decode_polygons returns Err for every other word in that place.
C17_OnlyWord15 ==
    /\ EveryRingClosedBy15
    /\ (Decoded("decode_polygons") /\ calls # <<>> /\ LastClosePath # 15)
           => result.tag = "Err"

\* C17 as the code has it: add_ring ends every ring with the word 15; where
\* decode_polygons reads the ClosePath of a ring it looks at the low 3 bits
\* only: it returns Err("Expected ClosePath command") for every word whose low
\* 3 bits are not 7, and takes every word whose low 3 bits are 7 (15, and also
\* 7 or 23) for the ClosePath.
C17_ClosePathLowBits ==
    /\ EveryRingClosedBy15
    /\ (Decoded("decode_polygons") /\ calls # <<>> /\ result.tag # "Panic") =>
           /\ And32(LastClosePath, 7) # GEOM_COMMAND_CLOSE_PATH
                  => result.tag = "Err"
           /\ And32(LastClosePath, 7) = GEOM_COMMAND_CLOSE_PATH
                  => /\ result.tag = "Ok"
                     /\ Len(Flatten(result.val)) = Len(calls)

\* C17 witness: two rings were written, each ending with 15; the decoder got
\* them with 23 for the last word and returned both rings.
C17_Witness ==
    /\ Decoded("decode_polygons") /\ result.tag = "Ok"
    /\ Len(calls) = 2
    /\ buf[Len(buf)] = 15
    /\ LastClosePath = 23
    /\ Len(Flatten(result.val)) = 2

----------------------------------------------------------------------------
(* C18: empty inputs *)

\* the step is a call of add_points, add_linestring or add_ring with no vertex
EmptyCall ==
    /\ Len(calls') = Len(calls) + 1
    /\ calls'[Len(calls')].pts = <<>>

\* C18: a call of add_points, add_linestring or add_ring with an empty input
\* leaves the buffer and the cursor (prev_x, prev_y) exactly as they were,
\* in every state of the encoder.
C18_EmptyInputIsNoOp ==
    [][EmptyCall => (buf' = buf /\ prev_x' = prev_x /\ prev_y' = prev_y
                     /\ enc_status' = enc_status)]_vars

\* C18 witness: after a call that wrote words and moved the cursor, an empty
\* add_ring was made.
C18_Witness ==
    /\ Len(calls) = 2
    /\ calls[1].pts # <<>> /\ calls[2].pts = <<>> /\ calls[2].op = "add_ring"
    /\ calls[2].at = Len(buf) /\ buf # <<>>
    /\ <<prev_x, prev_y>> # <<0, 0>>

----------------------------------------------------------------------------
(* C20: the cursor across calls *)

\* the last vertex supplied by the calls cs, (0,0) when there is none
RECURSIVE CursorAfter(_)
CursorAfter(cs) ==
    IF cs = <<>> THEN <<0, 0>>
    ELSE LET c == cs[Len(cs)]
         IN  IF c.pts = <<>> THEN CursorAfter(SubSeq(cs, 1, Len(cs) - 1))
             ELSE c.pts[Len(c.pts)]

\* the cursor is where the calls made so far left it
CursorPersists ==
    /\ calls = <<>> => (prev_x = 0 /\ prev_y = 0)
    /\ ~EncoderPanicked => <<prev_x, prev_y>> = CursorAfter(calls)

\* the MoveTo of call i carries its first vertex minus the cursor the calls
\* before it left (in i32 arithmetic: a call that returned in a build with
\* overflow checks had a difference that is an i32)
MoveToIsRelative(i) ==
    LET c  == CursorAfter(SubSeq(calls, 1, i - 1))
        dx == calls[i].pts[1][1] - c[1]
        dy == calls[i].pts[1][2] - c[2]
        w  == CallWords(i)
    IN  /\ And32(w[1], 7) = GEOM_COMMAND_MOVE_TO
        /\ w[2] = zigzag(Wrap32(dx))
        /\ w[3] = zigzag(Wrap32(dy))
        /\ overflow_checks => (dx \in I32 /\ dy \in I32)

EveryMoveToIsRelative ==
    \A i \in 1 .. Len(calls) :
        (calls[i].pts # <<>> /\ Completed(i)) => MoveToIsRelative(i)

\* the calls that supplied a vertex
Geometries == SelectSeq(calls, LAMBDA c : c.pts # <<>>)

\* the absolute coordinates of every geometry, as paths
ExpectedPaths == [i \in 1 .. Len(Geometries) |-> ExpectedLine(Geometries[i].pts)]

\* a buffer of geometries of one kind decodes to their absolute coordinates
GeometriesComeBack ==
    /\ (OnlyCalls("add_points") /\ Decoded("decode_points")) =>
           result.tag = "Ok" /\ result.val = ExpectedPoints(calls)
    /\ (OnlyCalls("add_linestring") /\ Decoded("decode_linestrings")) =>
           result.tag = "Ok" /\ result.val = ExpectedPaths
    /\ (OnlyCalls("add_ring") /\ Decoded("decode_polygons")) =>
           result.tag = "Ok" /\ Flatten(result.val) = ExpectedPaths

----------------------------------------------------------------------------
(* C19: take_tags *)

\* the index pairs of the adds a, as add wrote them
RECURSIVE IndexPairs(_)
IndexPairs(a) ==
    IF a = <<>> THEN <<>> ELSE <<Head(a).ki, Head(a).vi>> \o IndexPairs(Tail(a))

\* C19: take_tags returns the index pairs of exactly the adds made since the
\* take_tags before it (or since creation) and leaves the buffer empty, so the
\* buffer always holds the pairs of the adds since the last take_tags and a
\* take_tags right after another returns the empty list; the dictionaries
\* stay those of all adds ever made, and an add after take_tags of a key or
\* value added before it emits the index that key or value had.
C19_TakeTags ==
    LET a == AllAdds
    IN  /\ \A k \in 1 .. Len(taken) :
               /\ taken[k].tags = IndexPairs(taken[k].pairs)
               /\ taken[k].pairs = <<>> => taken[k].tags = <<>>
        /\ tags = IndexPairs(added)
        /\ keys = FirstSeenKeys(a)
        /\ Len(values) = Len(FirstSeenValues(a))
        /\ \A i \in 1 .. Len(a) :
               /\ KeyEq(keys[a[i].ki + 1], a[i].key)
               /\ ValueEq(values[a[i].vi + 1], a[i].value)

\* C19 witness: one add, a take_tags that returned its pair, a take_tags that
\* returned nothing, and an add of the same key and value that emitted the
\* indices of the first.
C19_Witness ==
    /\ tag_status = "live"
    /\ Len(taken) = 2
    /\ Len(taken[1].pairs) = 1 /\ taken[1].tags = <<0, 0>>
    /\ taken[2].tags = <<>>
    /\ Len(added) = 1 /\ tags = <<0, 0>>
    /\ Len(keys) = 1 /\ Len(values) = 1

----------------------------------------------------------------------------
(* C21: the shape of the tag buffer *)

\* the index list tg is the adds a, pair by pair: twice as long, the key
\* index then the value index of each add in order, each index inside the
\* dictionaries and naming the key and the value of its add
PairsOf(tg, a) ==
    /\ Len(tg) = 2 * Len(a)
    /\ \A i \in 1 .. Len(a) :
           /\ tg[2 * i - 1] < Len(keys)
           /\ tg[2 * i] < Len(values)
           /\ KeyEq(keys[tg[2 * i - 1] + 1], a[i].key)
           /\ ValueEq(values[tg[2 * i] + 1], a[i].value)

\* C21: after any add and take_tags calls the tag buffer, and every list
\* take_tags returned, has twice as many indices as adds were made since the
\* take_tags before, alternating key index and value index in the order of
\* the adds, every key index below the number of keys and every value index
\* below the number of values.
C21_TagBufferShape ==
    /\ PairsOf(tags, added)
    /\ \A k \in 1 .. Len(taken) : PairsOf(taken[k].tags, taken[k].pairs)

\* C21 witness: two keys were added with one value; the buffer is the two
\* pairs, key index first.
C21_Witness ==
    /\ tag_status = "live"
    /\ taken = <<>>
    /\ Len(added) = 2
    /\ tags = <<0, 0, 1, 0>>
    /\ Len(keys) = 2 /\ Len(values) = 1

----------------------------------------------------------------------------
(* C22: Hilbert tile ids *)

\* the tile is one of its zoom's grid
OnGrid == hil_x < 2 ^ hil_z /\ hil_y < 2 ^ hil_z

\* the ids of the test fixture, for the zooms up to 4
Fixture ==
    { <<0, 0, 0, 0>>,
      <<1, 0, 0, 1>>, <<1, 0, 1, 2>>, <<1, 1, 1, 3>>, <<1, 1, 0, 4>>,
      <<2, 0, 1, 8>>, <<2, 1, 1, 7>>, <<2, 2, 0, 19>>, <<2, 3, 3, 15>>, <<2, 3, 2, 16>>,
      <<3, 0, 0, 21>>, <<3, 7, 0, 84>>,
      <<4, 0, 0, 85>>, <<4, 15, 0, 340>> }

\* C22: for every zoom up to the highest and every x, y of its grid,
\* zxy_to_hilbert returns without overflow, hilbert_to_zxy on the id returns
\* (z, x, y) without overflow, and the ids are those of the test fixture.
C22_HilbertRoundTrip ==
    OnGrid =>
        /\ hil_pc \in {"encoded", "decoded"} =>
               /\ hil_id.tag = "Ok"
               /\ \A f \in Fixture :
                      <<hil_z, hil_x, hil_y>> = <<f[1], f[2], f[3]>>
                          => hil_id.val = f[4]
        /\ hil_pc = "decoded" =>
               /\ hil_zxy.tag = "Ok"
               /\ hil_zxy.val = <<hil_z, hil_x, hil_y>>

\* C22 witness: the last tile of the highest zoom's first row came back.
C22_Witness ==
    /\ hil_pc = "decoded"
    /\ hil_z = MaxZoom /\ hil_x = 2 ^ MaxZoom - 1 /\ hil_y = 0
    /\ hil_zxy = [tag |-> "Ok", val |-> <<MaxZoom, 2 ^ MaxZoom - 1, 0>>]

----------------------------------------------------------------------------
(* C23: decode_points on MoveTo runs *)

IsMoveToRun(r) ==
    /\ And32(r.word, 7) = GEOM_COMMAND_MOVE_TO
    /\ Shr32(r.word, 3) = Len(r.deltas)

RECURSIVE AllDeltas(_)
AllDeltas(rs) ==
    IF rs = <<>> THEN <<>> ELSE Head(rs).deltas \o AllDeltas(Tail(rs))

\* the sums of the deltas ds one after the other, from c, as i32 values
RECURSIVE RunningSums(_, _)
RunningSums(c, ds) ==
    IF ds = <<>> THEN <<>>
    ELSE LET n == <<Wrap32(c[1] + Head(ds)[1]), Wrap32(c[2] + Head(ds)[2])>>
         IN  <<n>> \o RunningSums(n, Tail(ds))

\* no sum of the deltas ds from c leaves the i32 range
RECURSIVE SumsFit(_, _)
SumsFit(c, ds) ==
    \/ ds = <<>>
    \/ LET n == <<c[1] + Head(ds)[1], c[2] + Head(ds)[2]>>
       IN  n[1] \in I32 /\ n[2] \in I32 /\ SumsFit(n, Tail(ds))

\* what decode_points returned on a buffer of runs is what C23 says
PointRunsDecoded ==
    /\ (\A i \in 1 .. Len(calls) : IsMoveToRun(calls[i])) =>
           /\ result.tag = "Ok"
           /\ result.val = RunningSums(<<0, 0>>, AllDeltas(calls))
    /\ (\E i \in 1 .. Len(calls) : And32(calls[i].word, 7) # GEOM_COMMAND_MOVE_TO) =>
           result.tag = "Err"

\* C23: on a buffer of MoveTo runs, each of any count with that many pairs,
\* decode_points returns the running sums of the deltas from (0,0), in order;
\* a command word of another id makes it return Err.
C23_PointRuns == Decoded("decode_points") => PointRunsDecoded

----------------------------------------------------------------------------
(* C24: a buffer that ends early *)

\* the lengths at which a prefix of buf ends between two paths
PathBoundaries == {calls[i].at : i \in 1 .. Len(calls)} \cup {Len(buf)}

\* the decoder was given the first words of what op wrote and ran the
\* decoder that belongs to op
DecodedPrefixOf(op) ==
    /\ OnlyCalls(op)
    /\ dec_status = "used"
    /\ dec_op = (IF op = "add_ring" THEN "decode_polygons" ELSE "decode_linestrings")
    /\ Len(dbuf) < Len(buf)

\* the prefix ends directly after a MoveTo coordinate
EndsAfterMoveTo == (Len(dbuf) - 3) \in PathBoundaries

\* the prefix ends where only the ClosePath of a ring is missing
EndsBeforeClosePath == Len(dbuf) > 0 /\ (Len(dbuf) + 1) \in PathBoundaries

----------------------------------------------------------------------------
(* C25: the words of a path *)

\* the steps between the vertices of pts that differ from their predecessor,
\* as i32 values
SegmentDeltas(pts) ==
    LET v == WithoutRepeats(pts)
    IN  [j \in 1 .. (Len(v) - 1) |->
            <<Wrap32(v[j + 1][1] - v[j][1]), Wrap32(v[j + 1][2] - v[j][2])>>]

\* the words C25 gives the path of call i: 9, the first vertex minus the
\* cursor, LineTo | (n << 3), 2n delta words (n = 1 and the pair (0,0) when no
\* vertex differs from its predecessor), and 15 for a ring
PathLayout(i) ==
    LET c     == CursorAfter(SubSeq(calls, 1, i - 1))
        first == <<Wrap32(calls[i].pts[1][1] - c[1]), Wrap32(calls[i].pts[1][2] - c[2])>>
        ds    == SegmentDeltas(calls[i].pts)
        steps == IF ds = <<>> THEN <<<<0, 0>>>> ELSE ds
    IN  <<9>> \o DeltaWords(<<first>>)
        \o <<Or32(GEOM_COMMAND_LINE_TO, Shl32(Len(steps), 3))>> \o DeltaWords(steps)
        \o (IF calls[i].op = "add_ring" THEN <<15>> ELSE <<>>)

\* C25: a non-empty add_linestring appends exactly 9, the two zig-zag words
\* of the first vertex minus the cursor, the word LineTo | (n << 3) and 2n
\* zig-zag delta words, n the number of later vertices that differ from their
\* predecessor, or 1 with the pair (0,0) when there is none; add_ring appends
\* the same and then 15; the line from (0,0) to (10,10) on a fresh encoder is
\* [9, 0, 0, 10, 20, 20].
C25_PathLayout ==
    /\ \A i \in 1 .. Len(calls) :
           (Completed(i) /\ calls[i].pts # <<>>
                /\ calls[i].op \in {"add_linestring", "add_ring"}) =>
               CallWords(i) = PathLayout(i)
    /\ (calls # <<>> /\ calls[1].op = "add_linestring"
            /\ calls[1].pts = <<<<0, 0>>, <<10, 10>>>>) =>
           SubSeq(buf, 1, 6) = <<9, 0, 0, 10, 20, 20>>

\* C25 witness: the two-vertex line of the test was written, and after it a
\* ring of one vertex, which got 9, the step back to (0,0), LineTo count 1,
\* the pair (0,0) and 15.
C25_Witness ==
    /\ Len(calls) = 2 /\ ~EncoderPanicked
    /\ calls[1].op = "add_linestring" /\ calls[1].pts = <<<<0, 0>>, <<10, 10>>>>
    /\ calls[2].op = "add_ring" /\ calls[2].pts = <<<<0, 0>>>>
    /\ buf = <<9, 0, 0, 10, 20, 20, 9, 19, 19, 10, 0, 0, 15>>

----------------------------------------------------------------------------
(* C26: the MoveTo count of add_points *)

\* the count field of a command word
CountField(w) == Shr32(w, 3)

\* the words C26 gives a non-empty add_points call i after its command word:
\* the first point minus the cursor and the non-zero deltas after it
PointDeltaWords(i) ==
    LET c     == CursorAfter(SubSeq(calls, 1, i - 1))
        first == <<Wrap32(calls[i].pts[1][1] - c[1]), Wrap32(calls[i].pts[1][2] - c[2])>>
    IN  DeltaWords(<<first>> \o SegmentDeltas(calls[i].pts))

\* C26 as stated: a non-empty add_points call appends one MoveTo word whose
\* count field is 1 plus the number of later points with a non-zero delta to
\* their predecessor, and exactly 2 * count delta words after it; the low 3
\* bits of the word are 1.
C26_AnyMoveToCount ==
    \A i \in 1 .. Len(calls) :
        (Completed(i) /\ calls[i].pts # <<>> /\ calls[i].op = "add_points") =>
            /\ And32(CallWords(i)[1], 7) = 1
            /\ CountField(CallWords(i)[1]) = Len(WithoutRepeats(calls[i].pts))
            /\ Len(CallWords(i)) = 1 + 2 * CountField(CallWords(i)[1])
            /\ SubSeq(CallWords(i), 2, Len(CallWords(i))) = PointDeltaWords(i)

\* C26: a non-empty add_points call appends one command word with low 3
\* bits 1 and after it the delta words of the first point and of every later
\* point with a non-zero delta to its predecessor, later left as they were
\* written; when the call keeps fewer points than the count field holds, the
\* count field is 1 plus the number of those later points and 2 * count delta
\* words follow the command word.
C26_MoveToCount ==
    \A i \in 1 .. Len(calls) :
        (Completed(i) /\ calls[i].pts # <<>> /\ calls[i].op = "add_points") =>
            /\ And32(CallWords(i)[1], 7) = 1
            /\ SubSeq(CallWords(i), 2, Len(CallWords(i))) = PointDeltaWords(i)
            /\ CountsFit(<<calls[i]>>) =>
                   /\ CountField(CallWords(i)[1]) = Len(WithoutRepeats(calls[i].pts))
                   /\ Len(CallWords(i)) = 1 + 2 * CountField(CallWords(i)[1])

\* C26 witness: add_points of (1,2), (1,2), (0,0) wrote MoveTo with count 2
\* and two delta pairs.
C26_Witness ==
    /\ Len(calls) = 1 /\ ~EncoderPanicked
    /\ calls[1].op = "add_points"
    /\ calls[1].pts = <<<<1, 2>>, <<1, 2>>, <<0, 0>>>>
    /\ buf = <<17, 2, 4, 1, 3>>

----------------------------------------------------------------------------
(* C27: a first ring that is not exterior *)

\* the rings were written by add_ring, every delta an i32 and every count
\* within the count field, and the first has no positive shoelace sum
InteriorFirst ==
    /\ calls # <<>> /\ OnlyCalls("add_ring") /\ NonEmptyCalls
    /\ DeltasFit(calls) /\ CountsFit(calls)
    /\ Shoelace(calls[1].pts) <= 0

\* ring i as decode_polygons is expected to return it
ExpectedRing(i) == ExpectedLine(calls[i].pts)

\* C27: decode_polygons does not fail on a well-formed stream whose first
\* ring is not exterior; that ring is the only one of a first polygon when an
\* exterior ring follows it, so [interior, exterior] decodes to 2 polygons of
\* 1 ring each and [interior, interior] to 1 polygon of 2 rings.
C27_InteriorFirst ==
    (InteriorFirst /\ Decoded("decode_polygons")) =>
        /\ result.tag = "Ok"
        /\ (Len(calls) >= 2 /\ Shoelace(calls[2].pts) > 0) =>
               /\ Len(result.val) >= 2
               /\ result.val[1] = <<ExpectedRing(1)>>
               /\ result.val[2][1] = ExpectedRing(2)
        /\ (Len(calls) = 2 /\ Shoelace(calls[2].pts) > 0) =>
               result.val = <<<<ExpectedRing(1)>>, <<ExpectedRing(2)>>>>
        /\ (Len(calls) = 2 /\ Shoelace(calls[2].pts) <= 0) =>
               result.val = <<<<ExpectedRing(1), ExpectedRing(2)>>>>

----------------------------------------------------------------------------
(* C28: what decode returns for indices in bounds *)

\* none of the seven optional fields of the tile value v is set
NoFieldSet(v) ==
    /\ v.string_value = None /\ v.float_value = None /\ v.double_value = None
    /\ v.int_value = None /\ v.uint_value = None /\ v.sint_value = None
    /\ v.bool_value = None

\* some value index of tg is inside vs and points to a value with no field set
PointsToUnset(vs, tg) ==
    \E p \in 1 .. (Len(tg) \div 2) :
        tg[2 * p] < Len(vs) /\ NoFieldSet(vs[tg[2 * p] + 1])

\* r is Ok with one entry per pair of tg, in order: the key and the Value
\* read from the value the pair points to
EntryPerPair(r, ks, vs, tg) ==
    /\ r.tag = "Ok"
    /\ Len(r.val) = Len(tg) \div 2
    /\ \A p \in 1 .. (Len(tg) \div 2) :
           /\ r.val[p][1] = ks[tg[2 * p - 1] + 1]
           /\ SameVariantAndPayload(r.val[p][2], from_tile_value(vs[tg[2 * p] + 1])[1])

\* C28: decode returns Err when a value index inside the dictionary points
\* to a value with none of its seven fields set; otherwise, for an even-length
\* list with every index in bounds, it returns Ok with one entry per pair, in
\* order, entry i being keys[tags[2i]] and the Value read from
\* values[tags[2i+1]].
C28_DecodeResult ==
    \A k \in 1 .. Len(decoded) :
        LET tg == taken[k].tags
        IN  /\ PointsToUnset(out_values, tg) => decoded[k].tag = "Err"
            /\ (Len(tg) % 2 = 0 /\ AllInBounds(out_keys, out_values, tg)
                    /\ ~PointsToUnset(out_values, tg)) =>
                   EntryPerPair(decoded[k], out_keys, out_values, tg)

\* C28 witness: of two pairs in bounds the first pointed to the String and
\* the second to the value with no field set, and the list was refused.
C28_Witness ==
    /\ Len(decoded) = 1 /\ Len(out_values) = 2 /\ NoFieldSet(out_values[2])
    /\ taken[1].tags = <<0, 0, 0, 1>>
    /\ decoded[1].tag = "Err" /\ decoded[1].msg = "Invalid tile value"

----------------------------------------------------------------------------
(* C29: Value to tile value and back *)

FieldNames == {"string_value", "float_value", "double_value", "int_value",
               "uint_value", "sint_value", "bool_value"}

\* the fields of the tile value tv that are set
SetFields(tv) == {f \in FieldNames : tv[f] # None}

\* the field that belongs to a variant
FieldOf(kind) ==
    CASE kind = "String" -> "string_value"
      [] kind = "Float"  -> "float_value"
      [] kind = "Double" -> "double_value"
      [] kind = "Int"    -> "int_value"
      [] kind = "Uint"   -> "uint_value"
      [] kind = "SInt"   -> "sint_value"
      [] kind = "Bool"   -> "bool_value"

\* from_tile_value gives Some(value) for the tile value tv
ReadsBackAs(tv, value) ==
    LET r == from_tile_value(tv)
    IN  r # None /\ r[1].kind = value.kind /\ r[1].v = value.v

\* C29: into_tile_value sets exactly one of the seven fields, the one of the
\* variant, and from_tile_value of the result is Some of the Value it came
\* from, for each of the seven variants, Float and Double by their bytes.
C29_ValueConversion ==
    tag_status = "consumed" =>
        /\ Len(out_values) = Len(values)
        /\ \A i \in 1 .. Len(values) :
               /\ SetFields(out_values[i]) = {FieldOf(values[i].kind)}
               /\ ReadsBackAs(out_values[i], values[i])

\* C29 witness: on a little-endian machine the Float of bytes 00 00 28 41
\* became float_value 10.5 and the SInt -10 became sint_value -10.
C29_Witness ==
    /\ tag_status = "consumed" /\ little_endian
    /\ Len(values) = 2
    /\ values[1].kind = "Float" /\ values[1].v = <<0, 0, 40, 65>>
    /\ out_values[1].float_value = Some(F32_10_5)
    /\ values[2].kind = "SInt" /\ values[2].v = -10
    /\ out_values[2].sint_value = Some(-10)

----------------------------------------------------------------------------
(* C30: the polygons of an Ok result *)

\* how many of the rings have a positive shoelace sum
Exteriors(rings) == Cardinality({i \in 1 .. Len(rings) : Shoelace(rings[i]) > 0})

\* the polygons ps are grouped as C30 says
GroupedByWinding(ps) ==
    LET rings == Flatten(ps)
    IN  /\ \A k \in 1 .. Len(ps) : ps[k] # <<>>
        /\ \A k \in 2 .. Len(ps) : Shoelace(ps[k][1]) > 0
        /\ \A k \in 1 .. Len(ps) : \A j \in 2 .. Len(ps[k]) : Shoelace(ps[k][j]) <= 0
        /\ Len(ps) = Exteriors(rings)
                     + (IF rings # <<>> /\ Shoelace(rings[1]) <= 0 THEN 1 ELSE 0)

\* C30: in every Ok result of decode_polygons, on any buffer, no polygon is
\* empty, every polygon but the first starts with a ring of positive shoelace
\* sum, every ring that is not the first of its polygon has a non-positive
\* one, the rings of all polygons are the rings of the stream in order, and
\* there are as many polygons as exterior rings, plus one when the first ring
\* is not exterior.
C30_GroupedByWinding ==
    (Decoded("decode_polygons") /\ result.tag = "Ok") =>
        /\ GroupedByWinding(result.val)
        /\ calls # <<>> => Flatten(result.val) = PathRings(<<0, 0>>, calls)

----------------------------------------------------------------------------
(* C31: indices stay valid across features *)

\* the index each add emitted still points to its key and its value: in the
\* encoder while it lives, in the dictionaries it gave out afterwards
IndicesStillPoint ==
    LET a == AllAdds
    IN  \A i \in 1 .. Len(a) :
            IF tag_status = "live"
            THEN /\ a[i].ki < Len(keys) /\ KeyEq(keys[a[i].ki + 1], a[i].key)
                 /\ a[i].vi < Len(values)
                 /\ SameVariantAndPayload(values[a[i].vi + 1], a[i].value)
            ELSE /\ a[i].ki < Len(out_keys) /\ KeyEq(out_keys[a[i].ki + 1], a[i].key)
                 /\ a[i].vi < Len(out_values)
                 /\ ReadsBackAs(out_values[a[i].vi + 1], a[i].value)

\* C31: the index given to a key or value is never changed by later adds,
\* whatever the interleaving of add and take_tags; so every list a take_tags
\* returned decodes, against the final dictionaries of into_keys_and_values,
\* to exactly the pairs added for that feature, in order.
C31_IndexStability ==
    /\ IndicesStillPoint
    /\ \A k \in 1 .. Len(decoded) :
           /\ decoded[k].tag = "Ok"
           /\ SamePairs(decoded[k].val, taken[k].pairs)

\* C31 witness: a pair was added and taken, a pair of another key and another
\* value was added and taken, and both lists were decoded against the final
\* dictionaries of two keys and two values.
C31_Witness ==
    /\ Len(taken) = 2 /\ Len(decoded) = 2
    /\ taken[1].tags = <<0, 0>> /\ taken[2].tags = <<1, 1>>
    /\ Len(out_keys) = 2 /\ Len(out_values) = 2
    /\ decoded[1].tag = "Ok" /\ decoded[2].tag = "Ok"
    /\ decoded[1].val[1][1] = taken[1].pairs[1].key
    /\ decoded[2].val[1][1] = taken[2].pairs[1].key

----------------------------------------------------------------------------
(* C32: the buffer only grows *)

\* the step is a call of add_points, add_linestring or add_ring
EncoderCall == Len(calls') = Len(calls) + 1

\* the step is into_vec
IntoVecCall == enc_status = "live" /\ enc_status' = "consumed"

\* C32: a call of add_points, add_linestring or add_ring leaves every word
\* that was in the buffer before it as it was and only appends, and into_vec
\* returns exactly the words accumulated.
C32_AppendOnly ==
    [][/\ EncoderCall => (Len(buf') >= Len(buf) /\ SubSeq(buf', 1, Len(buf)) = buf)
       /\ IntoVecCall => (dbuf' = buf /\ buf' = buf)]_vars

\* C32 witness: add_points of two points, then add_linestring from where it
\* ended, then into_vec: the five words of the first call stand before the
\* six of the second in the vector returned.
C32_Witness ==
    /\ enc_status = "consumed" /\ dec_status = "fresh"
    /\ Len(calls) = 2
    /\ calls[1].op = "add_points" /\ calls[2].op = "add_linestring"
    /\ calls[2].at = 5
    /\ dbuf = <<17, 2, 4, TwoW - 1, 3, 9, 0, 0, 10, 0, 0>>

====
